---- MODULE Spec2Model ----
(***************************************************************************)
(* A model of waf_bypass_scraper: the thread extractor (RedditParser), the *)
(* video extractor with its comment assembler (YouTubeParser) and the      *)
(* selector-fallback field resolvers, translated from parsers.py.          *)
(*                                                                         *)
(* Python values are tagged records, so that the type tests the code       *)
(* relies on (dict.get on a non-dict, len() of a number, ...) can be made: *)
(*   [t |-> "null"]            None / JSON null                            *)
(*   [t |-> "str",  s |-> <<chars>>]                                       *)
(*   [t |-> "num",  n |-> Int]                                             *)
(*   [t |-> "list", l |-> <<values>>]                                      *)
(*   [t |-> "obj",  o |-> [key |-> value, ...]]                            *)
(*   [t |-> "exc",  e |-> "TypeError"]   a raised exception                *)
(* Strings are sequences of one-character strings.                         *)
(***************************************************************************)
EXTENDS Integers, Sequences, FiniteSets, TLC

----------------------------------------------------------------------------
(* Bounds of the model *)

\* longest comment text of a fetched page
MaxLen == 2
\* largest caller-supplied character budget
MaxLimit == 5
\* most entity mutations in one fetched page
MaxMutations == 3
\* most command runs in one description
MaxRuns == 2

----------------------------------------------------------------------------
(* Python values *)

PyNone == [t |-> "null"]
JStr(s) == [t |-> "str", s |-> s]
JNum(n) == [t |-> "num", n |-> n]
JList(l) == [t |-> "list", l |-> l]
JObj(o) == [t |-> "obj", o |-> o]
Exc(e) == [t |-> "exc", e |-> e]
EmptyObj == [t |-> "obj", o |-> [k \in {} |-> k]]

IsExc(v) == v.t = "exc"

\* a text of n characters
Txt(n) == [i \in 1..n |-> "x"]

\* bool(v)
Truthy(v) ==
    CASE v.t = "null" -> FALSE
      [] v.t = "str" -> Len(v.s) > 0
      [] v.t = "num" -> v.n # 0
      [] v.t = "list" -> Len(v.l) > 0
      [] v.t = "obj" -> DOMAIN v.o # {}
      [] OTHER -> TRUE

\* v.get(k, d): AttributeError unless v is a dict; an exception in v propagates
Get(v, k, d) ==
    IF IsExc(v) THEN v
    ELSE IF v.t = "obj" THEN (IF k \in DOMAIN v.o THEN v.o[k] ELSE d)
    ELSE Exc("AttributeError")

\* whether `k in v` can be evaluated (TypeError on None and numbers)
InRaises(v) == v.t \in {"null", "num"}

\* k in v, for a key k: membership of a dict's keys; the strings and lists of
\* the sample inputs never hold a renderer key, so the test is false on them
In(k, v) == v.t = "obj" /\ k \in DOMAIN v.o

\* v[k] for a string key k (reached only after `k in v` held)
Index(v, k) ==
    IF v.t = "obj" THEN (IF k \in DOMAIN v.o THEN v.o[k] ELSE Exc("KeyError"))
    ELSE Exc("TypeError")

\* the elements `for x in v` visits, or the TypeError it raises: a list gives
\* its elements, a dict its keys (strings), a string its characters
Iter(v) ==
    CASE v.t = "list" -> v
      [] v.t = "obj" -> JList([i \in 1..Cardinality(DOMAIN v.o) |-> JStr(<<"k">>)])
      [] v.t = "str" -> JList([i \in 1..Len(v.s) |-> JStr(<<v.s[i]>>)])
      [] v.t = "exc" -> v
      [] OTHER -> Exc("TypeError")

\* len(v)
PyLen(v) ==
    CASE v.t = "str" -> JNum(Len(v.s))
      [] v.t = "list" -> JNum(Len(v.l))
      [] v.t = "obj" -> JNum(Cardinality(DOMAIN v.o))
      [] OTHER -> Exc("TypeError")

----------------------------------------------------------------------------
(* YouTubeParser: walks over the ytInitialData graph *)

\* an exception of one of the caught classes is replaced by the default
Catch(v, classes, d) == IF IsExc(v) /\ v.e \in classes THEN d ELSE v

\* .get("contents", {}).get("twoColumnWatchNextResults", {}).get("results", {})
\* .get("results", {}).get("contents", [])
WatchContents(data) ==
    Get(Get(Get(Get(Get(data, "contents", EmptyObj),
                    "twoColumnWatchNextResults", EmptyObj),
                "results", EmptyObj),
            "results", EmptyObj),
        "contents", JList(<<>>))

NotFound == [t |-> "nf"]

\* for item in items: if key in item: return item[key]     (from position i on)
RECURSIVE FirstTagged(_, _, _)
FirstTagged(items, key, i) ==
    IF i > Len(items) THEN NotFound
    ELSE IF InRaises(items[i]) THEN Exc("TypeError")
    ELSE IF In(key, items[i]) THEN Index(items[i], key)
    ELSE FirstTagged(items, key, i + 1)

\* v[0]
First(v) ==
    CASE v.t = "list" -> (IF Len(v.l) > 0 THEN v.l[1] ELSE Exc("IndexError"))
      [] v.t = "str" -> (IF Len(v.s) > 0 THEN JStr(<<v.s[1]>>) ELSE Exc("IndexError"))
      [] v.t = "obj" -> Exc("KeyError")
      [] v.t = "exc" -> v
      [] OTHER -> Exc("TypeError")

UnknownTitle == JStr(<<"U", "n", "k", "n", "o", "w", "n", " ", "T", "i", "t", "l", "e">>)
UnknownChannel ==
    JStr(<<"U", "n", "k", "n", "o", "w", "n", " ", "C", "h", "a", "n", "n", "e", "l">>)

_get_video_details(data) ==
    LET contents == Iter(WatchContents(data))
        found == IF IsExc(contents) THEN contents
                 ELSE FirstTagged(contents.l, "videoPrimaryInfoRenderer", 1)
    IN  IF found = NotFound THEN EmptyObj
        ELSE Catch(found, {"AttributeError", "KeyError", "TypeError"}, EmptyObj)

\* AttributeError is not among the classes _extract_title catches
_extract_title(video_details) ==
    LET runs == Get(Get(video_details, "title", EmptyObj), "runs", JList(<<>>))
        r == IF IsExc(runs) THEN runs
             ELSE IF Truthy(runs) THEN Get(First(runs), "text", UnknownTitle)
             ELSE UnknownTitle
    IN  Catch(r, {"KeyError", "IndexError", "TypeError"}, UnknownTitle)

\* the channel name read from the second section of the list instead of
\* from the section tagged videoSecondaryInfoRenderer
ChannelFromSecond(items, i) ==
    IF Len(items) < 2 THEN Exc("IndexError")
    ELSE IF InRaises(items[2]) THEN Exc("TypeError")
    ELSE IF ~In("videoSecondaryInfoRenderer", items[2]) THEN Exc("KeyError")
    ELSE LET owner == Get(Index(items[2], "videoSecondaryInfoRenderer"), "owner", EmptyObj)
             runs == Get(Get(Get(owner, "videoOwnerRenderer", EmptyObj),
                             "title", EmptyObj), "runs", JList(<<>>))
         IN  IF IsExc(runs) THEN runs
             ELSE IF Truthy(runs) THEN Get(First(runs), "text", UnknownChannel)
             ELSE UnknownChannel

\* the loop of _extract_channel_name from item i on
RECURSIVE ChannelFrom(_, _)
ChannelFrom(items, i) ==
    IF i > Len(items) THEN UnknownChannel
    ELSE IF InRaises(items[i]) THEN Exc("TypeError")
    ELSE IF In("videoSecondaryInfoRenderer", items[i])
    THEN LET owner == Get(Index(items[i], "videoSecondaryInfoRenderer"), "owner", EmptyObj)
             runs == Get(Get(Get(owner, "videoOwnerRenderer", EmptyObj),
                             "title", EmptyObj), "runs", JList(<<>>))
         IN  IF IsExc(runs) THEN runs
             ELSE IF Truthy(runs) THEN Get(First(runs), "text", UnknownChannel)
             ELSE ChannelFrom(items, i + 1)
    ELSE ChannelFrom(items, i + 1)

_extract_channel_name(data) ==
    LET contents == Iter(WatchContents(data))
        r == IF IsExc(contents) THEN contents ELSE ChannelFrom(contents.l, 1)
    IN  Catch(r, {"AttributeError", "KeyError", "IndexError", "TypeError"}, UnknownChannel)

_extract_description(data) ==
    LET contents == Iter(WatchContents(data))
        sec == IF IsExc(contents) THEN contents
               ELSE FirstTagged(contents.l, "videoSecondaryInfoRenderer", 1)
        r == IF sec = NotFound THEN JStr(<<>>)
             ELSE Get(Get(sec, "attributedDescription", EmptyObj), "content", JStr(<<>>))
    IN  Catch(r, {"AttributeError", "KeyError", "TypeError"}, JStr(<<>>))

_extract_view_count(video_details) ==
    Catch(Get(Get(Get(Get(video_details, "viewCount", EmptyObj),
                      "videoViewCountRenderer", EmptyObj),
                  "viewCount", EmptyObj),
              "simpleText", PyNone),
          {"AttributeError", "KeyError", "TypeError"}, PyNone)

_extract_upload_date(video_details) ==
    Catch(Get(Get(video_details, "dateText", EmptyObj), "simpleText", PyNone),
          {"AttributeError", "KeyError", "TypeError"}, PyNone)

Min(S) == CHOOSE m \in S : \A n \in S : m <= n

\* whether the characters sub occur in s
Contains(s, sub) == \E p \in 1..Len(s) : p + Len(sub) - 1 <= Len(s)
                        /\ \A k \in 1..Len(sub) : s[p + k - 1] = sub[k]

Lower(c) ==
    CASE c = "L" -> "l" [] c = "I" -> "i" [] c = "K" -> "k" [] c = "E" -> "e"
      [] OTHER -> c

\* [\d,KMB] under re.IGNORECASE
CountChars == {"0", "1", "2", "3", "4", "5", "6", "7", "8", "9", ",",
               "K", "M", "B", "k", "m", "b"}
Spaces == {" "}

\* the end of the longest run of characters of class cls that starts at p
RECURSIVE RunEnd(_, _, _)
RunEnd(s, p, cls) ==
    IF p + 1 <= Len(s) /\ s[p + 1] \in cls THEN RunEnd(s, p + 1, cls) ELSE p

\* whether \s*like matches right after position p
LikeAfter(s, p) ==
    LET q == IF p + 1 <= Len(s) /\ s[p + 1] \in Spaces THEN RunEnd(s, p + 1, Spaces) ELSE p
    IN  /\ q + 4 <= Len(s)
        /\ <<Lower(s[q + 1]), Lower(s[q + 2]), Lower(s[q + 3]), Lower(s[q + 4])>>
             = <<"l", "i", "k", "e">>

\* group 1 of re.search(r'([\d,KMB]+)\s*like', s, re.IGNORECASE), or NotFound
SearchLikes(s) ==
    LET starts == {p \in 1..Len(s) : s[p] \in CountChars /\ LikeAfter(s, RunEnd(s, p, CountChars))}
    IN  IF starts = {} THEN NotFound
        ELSE JStr(SubSeq(s, Min(starts), RunEnd(s, Min(starts), CountChars)))

\* the loop over topLevelButtons from button i on: the like count, NotFound
\* when no button gives one, or the exception raised
RECURSIVE LikesInButtons(_, _)
LikesInButtons(buttons, i) ==
    IF i > Len(buttons) THEN NotFound
    ELSE IF InRaises(buttons[i]) THEN Exc("TypeError")
    ELSE IF In("segmentedLikeDislikeButtonRenderer", buttons[i])
    THEN LET like_button == Get(Get(Index(buttons[i], "segmentedLikeDislikeButtonRenderer"),
                                    "likeButton", EmptyObj), "toggleButtonRenderer", EmptyObj)
             label == Get(Get(Get(Get(like_button, "defaultText", EmptyObj),
                                  "accessibility", EmptyObj),
                              "accessibilityData", EmptyObj), "label", JStr(<<>>))
         IN  IF IsExc(label) THEN label
             ELSE IF ~Truthy(label) THEN LikesInButtons(buttons, i + 1)
             ELSE IF label.t # "str" THEN Exc("TypeError")
             ELSE IF SearchLikes(label.s) # NotFound THEN SearchLikes(label.s)
             ELSE LikesInButtons(buttons, i + 1)
    ELSE LikesInButtons(buttons, i + 1)

\* the loop over the sections from item i on
RECURSIVE LikesInItems(_, _)
LikesInItems(items, i) ==
    IF i > Len(items) THEN NotFound
    ELSE IF InRaises(items[i]) THEN Exc("TypeError")
    ELSE IF In("videoPrimaryInfoRenderer", items[i])
    THEN LET buttons == Iter(Get(Get(Get(Index(items[i], "videoPrimaryInfoRenderer"),
                                         "videoActions", EmptyObj),
                                     "menuRenderer", EmptyObj),
                                 "topLevelButtons", JList(<<>>)))
             r == IF IsExc(buttons) THEN buttons ELSE LikesInButtons(buttons.l, 1)
         IN  IF r = NotFound THEN LikesInItems(items, i + 1) ELSE r
    ELSE LikesInItems(items, i + 1)

_extract_like_count(data) ==
    LET contents == Iter(WatchContents(data))
        r == IF IsExc(contents) THEN contents ELSE LikesInItems(contents.l, 1)
    IN  IF r = NotFound THEN PyNone
        ELSE Catch(r, {"AttributeError", "KeyError", "IndexError", "TypeError"}, PyNone)

\* a slice index clamped as Python clamps it
SliceIndex(k, n) ==
    IF k < 0 THEN (IF k + n < 0 THEN 0 ELSE k + n)
    ELSE IF k > n THEN n ELSE k

\* s[a:b] of a sequence
Slice(s, a, b) == SubSeq(s, SliceIndex(a, Len(s)) + 1, SliceIndex(b, Len(s)))

\* the percent escapes the sample URLs use
HexPairs == {<<"3", "A">>, <<"2", "F">>, <<"3", "F">>, <<"3", "D">>, <<"2", "6">>}
Unhex(h) ==
    CASE h = <<"3", "A">> -> ":" [] h = <<"2", "F">> -> "/" [] h = <<"3", "F">> -> "?"
      [] h = <<"3", "D">> -> "=" [] OTHER -> "&"

\* urllib.parse.unquote on the escapes of HexPairs
RECURSIVE unquote(_)
unquote(s) ==
    IF s = <<>> THEN <<>>
    ELSE IF s[1] = "%" /\ Len(s) >= 3 /\ <<s[2], s[3]>> \in HexPairs
    THEN <<Unhex(<<s[2], s[3]>>)>> \o unquote(SubSeq(s, 4, Len(s)))
    ELSE <<s[1]>> \o unquote(Tail(s))

\* group 1 of re.search(r'[?&]q=([^&]+)', s), or NotFound
SearchQ(s) ==
    LET starts == {p \in 1..Len(s) :
                      /\ s[p] \in {"?", "&"}
                      /\ p + 3 <= Len(s)
                      /\ s[p + 1] = "q" /\ s[p + 2] = "=" /\ s[p + 3] # "&"}
        NotAmp == {s[k] : k \in 1..Len(s)} \ {"&"}
    IN  IF starts = {} THEN NotFound
        ELSE JStr(SubSeq(s, Min(starts) + 3, RunEnd(s, Min(starts) + 3, NotAmp)))

YouTubeOrigin == <<"h", "t", "t", "p", "s", ":", "/", "/", "w", "w", "w", ".", "y", "o", "u", "t", "u", "b", "e", ".", "c", "o", "m">>

\* "/redirect?" in url or "youtube.com/redirect" in url
IsRedirect(target) ==
    \/ Contains(target, <<"/", "r", "e", "d", "i", "r", "e", "c", "t", "?">>)
    \/ Contains(target, <<"y", "o", "u", "t", "u", "b", "e", ".", "c", "o", "m", "/", "r", "e", "d", "i", "r", "e", "c", "t">>)

\* the url a non-empty target string is resolved to, the q parameter of a
\* redirect taken as it is written
ResolvedUrlUndecoded(target) ==
    IF IsRedirect(target)
    THEN (IF SearchQ(target) # NotFound THEN SearchQ(target) ELSE JStr(target))
    ELSE IF target[1] = "/" THEN JStr(YouTubeOrigin \o target)
    ELSE JStr(target)

\* the url a non-empty target string is resolved to
ResolvedUrl(target) ==
    IF IsRedirect(target)
    THEN (IF SearchQ(target) # NotFound THEN JStr(unquote(SearchQ(target).s))
          ELSE JStr(target))
    ELSE IF target[1] = "/" THEN JStr(YouTubeOrigin \o target)
    ELSE JStr(target)

\* the body of the loop over command_runs on one run: [exc |-> the exception
\* raised or NotFound, links |-> the links so far]
RunStep(links, run, desc_text) ==
    LET start_idx == Get(run, "startIndex", JNum(0))
        length == Get(run, "length", JNum(0))
        target == Get(Get(Get(Get(run, "onTap", EmptyObj), "innertubeCommand", EmptyObj),
                          "urlEndpoint", EmptyObj), "url", JStr(<<>>))
        Raise(e) == [exc |-> e, links |-> links]
        sliced == IF ~Truthy(desc_text) THEN JStr(<<>>)
                  ELSE IF start_idx.t # "num" \/ length.t # "num" THEN Exc("TypeError")
                  ELSE IF desc_text.t = "str"
                  THEN JStr(Slice(desc_text.s, start_idx.n, start_idx.n + length.n))
                  ELSE IF desc_text.t = "list"
                  THEN JList(Slice(desc_text.l, start_idx.n, start_idx.n + length.n))
                  ELSE Exc("TypeError")
        resolved == ResolvedUrl(target.s)
    IN  IF IsExc(start_idx) THEN Raise(start_idx)
        ELSE IF IsExc(sliced) THEN Raise(sliced)
        ELSE IF IsExc(target) THEN Raise(target)
        ELSE IF ~Truthy(target) THEN [exc |-> NotFound, links |-> links]
        ELSE IF target.t \in {"num", "obj"} THEN Raise(Exc("TypeError"))
        ELSE IF target.t = "list" THEN Raise(Exc("AttributeError"))
        ELSE [exc |-> NotFound,
              links |-> Append(links, [text |-> IF Truthy(sliced) THEN sliced ELSE resolved,
                                       url |-> resolved])]

\* the loop over command_runs from run i on
RECURSIVE RunsFrom(_, _, _, _)
RunsFrom(links, runs, desc_text, i) ==
    IF i > Len(runs) THEN [exc |-> NotFound, links |-> links]
    ELSE LET r == RunStep(links, runs[i], desc_text)
         IN  IF r.exc # NotFound THEN r ELSE RunsFrom(r.links, runs, desc_text, i + 1)

\* the loop over the sections from item i on
RECURSIVE LinksInItems(_, _, _)
LinksInItems(links, items, i) ==
    IF i > Len(items) THEN [exc |-> NotFound, links |-> links]
    ELSE IF InRaises(items[i]) THEN [exc |-> Exc("TypeError"), links |-> links]
    ELSE IF In("videoSecondaryInfoRenderer", items[i])
    THEN LET secondary_info == Index(items[i], "videoSecondaryInfoRenderer")
             attributed_desc == Get(secondary_info, "attributedDescription", EmptyObj)
             command_runs == Iter(Get(attributed_desc, "commandRuns", JList(<<>>)))
             desc_text == Get(attributed_desc, "content", JStr(<<>>))
             r == IF IsExc(command_runs) THEN [exc |-> command_runs, links |-> links]
                  ELSE RunsFrom(links, command_runs.l, desc_text, 1)
         IN  IF r.exc # NotFound THEN r ELSE LinksInItems(r.links, items, i + 1)
    ELSE LinksInItems(links, items, i + 1)

\* the list of {"text", "url"} links, [] on one of the caught exceptions
_extract_description_links(data) ==
    LET contents == Iter(WatchContents(data))
        r == IF IsExc(contents) THEN [exc |-> contents, links |-> <<>>]
             ELSE LinksInItems(<<>>, contents.l, 1)
    IN  IF r.exc # NotFound THEN <<>> ELSE r.links

\* the inner loop of _extract_continuation_token from entry i on
RECURSIVE TokenInList(_, _)
TokenInList(l, i) ==
    IF i > Len(l) THEN NotFound
    ELSE IF InRaises(l[i]) THEN Exc("TypeError")
    ELSE IF In("continuationItemRenderer", l[i])
    THEN LET token == Get(Get(Get(Index(l[i], "continuationItemRenderer"),
                                  "continuationEndpoint", EmptyObj),
                              "continuationCommand", EmptyObj),
                          "token", PyNone)
         IN  IF IsExc(token) THEN token
             ELSE IF Truthy(token) THEN token
             ELSE TokenInList(l, i + 1)
    ELSE TokenInList(l, i + 1)

\* the outer loop of _extract_continuation_token from item i on
RECURSIVE TokenInItems(_, _)
TokenInItems(items, i) ==
    IF i > Len(items) THEN NotFound
    ELSE IF InRaises(items[i]) THEN Exc("TypeError")
    ELSE IF In("itemSectionRenderer", items[i])
    THEN LET section == Index(items[i], "itemSectionRenderer")
             contents_list == Iter(Get(section, "contents", JList(<<>>)))
             r == IF IsExc(contents_list) THEN contents_list
                  ELSE TokenInList(contents_list.l, 1)
         IN  IF r = NotFound THEN TokenInItems(items, i + 1) ELSE r
    ELSE TokenInItems(items, i + 1)

_extract_continuation_token(data) ==
    LET contents == Iter(WatchContents(data))
        r == IF IsExc(contents) THEN contents ELSE TokenInItems(contents.l, 1)
    IN  IF r = NotFound THEN PyNone
        ELSE Catch(r, {"AttributeError", "KeyError", "TypeError"}, PyNone)

----------------------------------------------------------------------------
(* YouTubeParser: decoding the comment page *)

\* the position of key k in the insertion-ordered dict m (a sequence of
\* <<key, value>> pairs), 0 when absent
KeyPos(m, k) ==
    IF \E i \in 1..Len(m) : m[i][1] = k
    THEN CHOOSE i \in 1..Len(m) : m[i][1] = k
    ELSE 0

\* m[k] = v on an insertion-ordered dict: a new key is appended, a present
\* key keeps its position and takes the new value
DictSet(m, k, v) ==
    IF KeyPos(m, k) = 0 THEN Append(m, <<k, v>>)
    ELSE [m EXCEPT ![KeyPos(m, k)] = <<k, v>>]

\* list(m.values())
DictValues(m) == [i \in 1..Len(m) |-> m[i][2]]

\* the loop body of _extract_comment_threads on one mutation:
\* [exc |-> the exception raised or NotFound, map |-> the new comment_map]
MutationStep(comment_map, mutation) ==
    LET payload == Get(mutation, "payload", EmptyObj)
        Raise(e) == [exc |-> e, map |-> comment_map]
        Skip == [exc |-> NotFound, map |-> comment_map]
    IN  IF IsExc(payload) THEN Raise(payload)
        ELSE IF InRaises(payload) THEN Raise(Exc("TypeError"))
        ELSE IF In("commentEntityPayload", payload)
        THEN LET comment_payload == Index(payload, "commentEntityPayload")
                 properties == Get(comment_payload, "properties", EmptyObj)
                 comment_id == Get(properties, "commentId", PyNone)
                 author == Get(comment_payload, "author", EmptyObj)
                 toolbar == Get(comment_payload, "toolbar", EmptyObj)
             IN  IF IsExc(comment_id) THEN Raise(comment_id)
                 ELSE IF ~Truthy(comment_id) THEN Skip
                 ELSE IF comment_id.t \in {"list", "obj"} THEN Raise(Exc("TypeError"))
                 ELSE [exc |-> NotFound,
                       map |-> DictSet(comment_map, comment_id,
                                       JObj([author |-> author,
                                             properties |-> properties,
                                             toolbar |-> toolbar]))]
        ELSE Skip

\* the loop of _extract_comment_threads from mutation i on
RECURSIVE MutationsFrom(_, _, _)
MutationsFrom(comment_map, mutations, i) ==
    IF i > Len(mutations) THEN JList(DictValues(comment_map))
    ELSE LET m == MutationStep(comment_map, mutations[i])
         IN  IF m.exc # NotFound THEN m.exc
             ELSE MutationsFrom(m.map, mutations, i + 1)

\* the list of comment data, [] on one of the caught exceptions
_extract_comment_threads(comments_data) ==
    LET mutations == Iter(Get(Get(Get(comments_data, "frameworkUpdates", EmptyObj),
                                  "entityBatchUpdate", EmptyObj),
                              "mutations", JList(<<>>)))
        r == IF IsExc(mutations) THEN mutations
             ELSE MutationsFrom(<<>>, mutations.l, 1)
    IN  Catch(r, {"AttributeError", "KeyError", "IndexError", "TypeError"}, JList(<<>>)).l

YouTubeComment(author, text, likes, timestamp, is_pinned, is_hearted) ==
    [author |-> author, text |-> text, likes |-> likes, timestamp |-> timestamp,
     is_pinned |-> is_pinned, is_hearted |-> is_hearted]

NoComment == [none |-> TRUE]

\* [comment |-> the YouTubeComment or NoComment, warned |-> whether the
\* except branch printed its warning]
_parse_comment_thread(comment_data) ==
    LET author_info == Get(comment_data, "author", EmptyObj)
        author_name == Get(author_info, "displayName", JStr(<<"U">>))
        properties == Get(comment_data, "properties", EmptyObj)
        content_data == Get(properties, "content", EmptyObj)
        text == Get(content_data, "content", JStr(<<>>))
        published_time == Get(properties, "publishedTime", PyNone)
        toolbar == Get(comment_data, "toolbar", EmptyObj)
        like_count == Get(toolbar, "likeCountNotliked",
                          Get(toolbar, "likeCountLiked", PyNone))
        raised == \/ \E v \in {author_name, text, published_time, like_count} : IsExc(v)
                  \/ InRaises(toolbar)
        is_hearted == In("heartActiveTooltip", toolbar)
    IN  IF raised THEN [comment |-> NoComment, warned |-> TRUE]
        ELSE IF ~Truthy(text) THEN [comment |-> NoComment, warned |-> FALSE]
        ELSE [comment |-> YouTubeComment(author_name, text, like_count,
                                         published_time, FALSE, is_hearted),
              warned |-> FALSE]

----------------------------------------------------------------------------
(* YouTubeParser._extract_video_id *)

\* the number of characters of a video id
IdLen == 11

Letters ==
    {"a", "b", "c", "d", "e", "f", "g", "h", "i", "j", "k", "l", "m", "n", "o",
     "p", "q", "r", "s", "t", "u", "v", "w", "x", "y", "z",
     "A", "B", "C", "D", "E", "F", "G", "H", "I", "J", "K", "L", "M", "N", "O",
     "P", "Q", "R", "S", "T", "U", "V", "W", "X", "Y", "Z"}
Digits == {"0", "1", "2", "3", "4", "5", "6", "7", "8", "9"}

\* [0-9A-Za-z_-]
IdChars == Letters \cup Digits \cup {"_", "-"}

\* whether the characters pre stand at position p of u
PrefixAt(u, p, pre) ==
    /\ p + Len(pre) - 1 <= Len(u)
    /\ \A k \in 1..Len(pre) : u[p + k - 1] = pre[k]

\* the positions of u where pre is followed by IdLen id characters
IdAfter(u, pre) ==
    {p \in 1..Len(u) :
        /\ PrefixAt(u, p, pre)
        /\ p + Len(pre) + IdLen - 1 <= Len(u)
        /\ \A k \in 0..(IdLen - 1) : u[p + Len(pre) + k] \in IdChars}

\* re.search(prefix alternatives + ([0-9A-Za-z_-]{11}), url): group 1 of the
\* leftmost match, or NotFound
SearchId(u, prefixes) ==
    LET hits == {<<p, pre>> \in (1..Len(u)) \X prefixes : p \in IdAfter(u, pre)}
    IN  IF hits = {} THEN NotFound
        ELSE LET p == Min({h[1] : h \in hits})
                 pre == CHOOSE q \in prefixes : <<p, q>> \in hits
             IN  JStr(SubSeq(u, p + Len(pre), p + Len(pre) + IdLen - 1))

\* the three patterns in order; ValueError when none matches
_extract_video_id(u) ==
    LET m1 == SearchId(u, {<<"v", "=">>, <<"/">>})
        m2 == SearchId(u, {<<"y", "o", "u", "t", "u", ".", "b", "e", "/">>})
        m3 == SearchId(u, {<<"e", "m", "b", "e", "d", "/">>})
    IN  IF m1 # NotFound THEN m1
        ELSE IF m2 # NotFound THEN m2
        ELSE IF m3 # NotFound THEN m3
        ELSE Exc("ValueError")

----------------------------------------------------------------------------
(* Sample inputs of the video extractor *)

WatchUrl == <<"h", "t", "t", "p", "s", ":", "/", "/", "w", "w", "w", ".", "y", "o", "u", "t", "u", "b", "e", ".", "c", "o", "m", "/", "w", "a", "t", "c", "h", "?", "v", "=", "d", "Q", "w", "4", "w", "9", "W", "g", "X", "c", "Q">>
ShortUrl == <<"h", "t", "t", "p", "s", ":", "/", "/", "y", "o", "u", "t", "u", ".", "b", "e", "/", "d", "Q", "w", "4", "w", "9", "W", "g", "X", "c", "Q">>
HomeUrl == <<"h", "t", "t", "p", "s", ":", "/", "/", "w", "w", "w", ".", "y", "o", "u", "t", "u", "b", "e", ".", "c", "o", "m", "/">>

Token == JStr(<<"t", "k">>)

Watch(items) ==
    JObj([contents |-> JObj([twoColumnWatchNextResults |-> JObj([results |->
        JObj([results |-> JObj([contents |-> JList(items)])])])])])

Runs(s) == JObj([runs |-> JList(<<JObj([text |-> JStr(s)])>>)])

Primary ==
    JObj([videoPrimaryInfoRenderer |-> JObj([
        title |-> Runs(<<"T">>),
        viewCount |-> JObj([videoViewCountRenderer |->
            JObj([viewCount |-> JObj([simpleText |-> JStr(<<"9">>)])])]),
        dateText |-> JObj([simpleText |-> JStr(<<"d">>)]),
        videoActions |-> JObj([menuRenderer |-> JObj([topLevelButtons |-> JList(<<
            JObj([segmentedLikeDislikeButtonRenderer |-> JObj([likeButton |->
                JObj([toggleButtonRenderer |-> JObj([defaultText |-> JObj([accessibility |->
                    JObj([accessibilityData |-> JObj([label |->
                        JStr(<<"1", ",", "2", "K", " ", "l", "i", "k", "e", "s">>)])])])])])])])>>)])])])])

\* a primary section whose title is a string where an object is expected
PrimaryBadTitle == JObj([videoPrimaryInfoRenderer |-> JObj([title |-> JStr(<<"T">>)])])

CommandRun(start, length, target) ==
    JObj([startIndex |-> JNum(start), length |-> JNum(length),
          onTap |-> JObj([innertubeCommand |-> JObj([urlEndpoint |->
              JObj([url |-> JStr(target)])])])])

Secondary ==
    JObj([videoSecondaryInfoRenderer |-> JObj([
        owner |-> JObj([videoOwnerRenderer |-> JObj([title |-> Runs(<<"C">>)])]),
        attributedDescription |-> JObj([
            content |-> JStr(<<"s", "e", "e", " ", "x">>),
            commandRuns |-> JList(<<
                CommandRun(4, 1, <<"h", "t", "t", "p", "s", ":", "/", "/", "w", "w", "w", ".", "y", "o", "u", "t", "u", "b", "e", ".", "c", "o", "m", "/", "r", "e", "d", "i", "r", "e", "c", "t", "?", "e", "=", "1", "&", "q", "=", "h", "t", "t", "p", "s", "%", "3", "A", "%", "2", "F", "%", "2", "F", "x", ".", "y">>),
                CommandRun(9, 1, <<"/", "c">>)>>)])])])

\* command run targets: none, a site path, an absolute url, redirects with
\* and without a q parameter, a redirect to a site path, a number
SampleTargets ==
    {JStr(<<>>),
     JStr(<<"/", "c">>),
     JStr(<<"h", "t", "t", "p", "s", ":", "/", "/", "x", ".", "y">>),
     JStr(<<"/", "r", "e", "d", "i", "r", "e", "c", "t", "?", "q", "=", "h", "t", "t", "p", "s", "%", "3", "A", "%", "2", "F", "%", "2", "F", "x", ".", "y">>),
     JStr(<<"h", "t", "t", "p", "s", ":", "/", "/", "w", "w", "w", ".", "y", "o", "u", "t", "u", "b", "e", ".", "c", "o", "m", "/", "r", "e", "d", "i", "r", "e", "c", "t", "?", "e", "=", "1", "&", "q", "=", "h", "t", "t", "p", "s", "%", "3", "A", "%", "2", "F", "%", "2", "F", "x", ".", "y", "&", "v", "=", "2">>),
     JStr(<<"/", "r", "e", "d", "i", "r", "e", "c", "t", "?", "x", "=", "1">>),
     JStr(<<"/", "r", "e", "d", "i", "r", "e", "c", "t", "?", "q", "=", "%", "2", "F", "c">>),
     JNum(1)}

\* command runs over the sample targets, with an empty and a one-character span
SampleRuns ==
    {JObj([startIndex |-> JNum(span[1]), length |-> JNum(span[2]),
           onTap |-> JObj([innertubeCommand |-> JObj([urlEndpoint |->
               JObj([url |-> target])])])]) :
        span \in {<<0, 0>>, <<4, 1>>}, target \in SampleTargets}

\* the lists of at most n sample runs
RECURSIVE RunLists(_)
RunLists(n) ==
    IF n = 0 THEN {<<>>}
    ELSE RunLists(n - 1) \cup {Append(l, r) : l \in RunLists(n - 1), r \in SampleRuns}

\* a secondary section with the given description text and command runs
SecondaryWith(content, runs) ==
    JObj([videoSecondaryInfoRenderer |-> JObj([
        attributedDescription |-> JObj([content |-> JStr(content),
                                        commandRuns |-> JList(runs)])])])

\* the graphs whose description links are extracted
LinkGraphs ==
    {Watch(<<Primary, SecondaryWith(content, runs)>>) :
        content \in {<<>>, <<"s", "e", "e", " ", "x">>}, runs \in RunLists(MaxRuns)}

CommentsSection(token) ==
    JObj([itemSectionRenderer |-> JObj([contents |-> JList(<<
        JObj([continuationItemRenderer |-> JObj([continuationEndpoint |->
            JObj([continuationCommand |-> JObj([token |-> token])])])])>>)])])

\* the decoded ytInitialData blobs: None when the blob is absent or malformed
SampleGraphs ==
    {PyNone,
     EmptyObj,
     Watch(<<Primary, Secondary, CommentsSection(Token)>>),
     Watch(<<Secondary, Primary>>),
     Watch(<<Primary, Secondary>>),
     Watch(<<Primary, CommentsSection(JStr(<<>>))>>),
     Watch(<<Primary, JNum(1), CommentsSection(Token)>>),
     Watch(<<PrimaryBadTitle, CommentsSection(Token)>>)}

\* the (blob, URL) pairs a run starts from
VideoInputs ==
    {[data |-> g, url |-> WatchUrl] : g \in SampleGraphs}
    \cup {[data |-> Watch(<<Primary, Secondary>>), url |-> u] : u \in {ShortUrl, HomeUrl}}
    \cup {[data |-> Watch(<<Primary, Secondary, CommentsSection(Token)>>), url |-> HomeUrl]}

\* commentEntityPayload of a comment with the given properties.content
Entity(id, content) ==
    JObj([properties |-> JObj([commentId |-> id, content |-> content,
                               publishedTime |-> JStr(<<"1", "d">>)]),
          author |-> JObj([displayName |-> JStr(<<"a">>)]),
          toolbar |-> JObj([likeCountNotliked |-> JStr(<<"3">>)])])

Content(text) == JObj([content |-> text])

Mutation(entity) == JObj([payload |-> JObj([commentEntityPayload |-> entity])])

\* the commentId of the mutation at position i
IdOf(i) == JStr(Txt(i))

\* the shapes a mutation of a page can take: "fresh" mutations carry an id of
\* their own, "same" repeats the id of the first mutation, "none" has no
\* commentId, "nopayload" no comment payload; content is properties.content
Shapes ==
    {[id |-> "fresh", content |-> Content(JStr(Txt(n)))] : n \in 0..MaxLen}
    \cup {[id |-> "fresh", content |-> Content(JNum(7))],
          [id |-> "fresh", content |-> JStr(<<"c">>)],
          [id |-> "same", content |-> Content(JStr(Txt(1)))],
          [id |-> "none", content |-> Content(JStr(Txt(1)))],
          [id |-> "nopayload", content |-> PyNone]}

\* the mutation of shape sh at position i of a page
MutationOf(sh, i) ==
    CASE sh.id = "fresh" -> Mutation(Entity(IdOf(i), sh.content))
      [] sh.id = "same" -> Mutation(Entity(IdOf(1), sh.content))
      [] sh.id = "none" -> Mutation(JObj([properties |-> JObj([content |-> sh.content])]))
      [] OTHER -> JObj([payload |-> EmptyObj])

Page(mutations) ==
    JObj([frameworkUpdates |-> JObj([entityBatchUpdate |->
        JObj([mutations |-> JList(mutations)])])])

\* the JSON bodies the comments API can answer with
SamplePages ==
    {EmptyObj,
     JObj([frameworkUpdates |-> JList(<<>>)]),
     Page(<<Mutation(Entity(IdOf(1), Content(JStr(Txt(1))))), JStr(<<"m">>)>>),
     Page(<<Mutation(Entity(IdOf(1), Content(JStr(Txt(1))))), JObj([payload |-> PyNone])>>)}
    \cup {Page([i \in DOMAIN shapes |-> MutationOf(shapes[i], i)]) :
            shapes \in UNION {[1..n -> Shapes] : n \in 0..MaxMutations}}

\* the bodies with at most two mutations
ShortPages ==
    {Page([i \in DOMAIN shapes |-> MutationOf(shapes[i], i)]) :
        shapes \in UNION {[1..n -> Shapes] : n \in 0..2}}

----------------------------------------------------------------------------
(* RedditParser: the parsed tree and the field resolvers *)

Whitespace == {" ", "\n", "\t"}

\* str.strip()
RECURSIVE Strip(_)
Strip(s) ==
    IF s = <<>> THEN s
    ELSE IF s[1] \in Whitespace THEN Strip(Tail(s))
    ELSE IF s[Len(s)] \in Whitespace THEN Strip(SubSeq(s, 1, Len(s) - 1))
    ELSE s

\* sep.join(pieces)
RECURSIVE Join(_, _)
Join(pieces, sep) ==
    IF pieces = <<>> THEN <<>>
    ELSE IF Len(pieces) = 1 THEN pieces[1]
    ELSE pieces[1] \o sep \o Join(Tail(pieces), sep)

\* the stripped text nodes that are not empty
RECURSIVE StrippedNodes(_)
StrippedNodes(nodes) ==
    IF nodes = <<>> THEN <<>>
    ELSE IF Strip(nodes[1]) = <<>> THEN StrippedNodes(Tail(nodes))
    ELSE <<Strip(nodes[1])>> \o StrippedNodes(Tail(nodes))

\* an element of the tree: its text nodes in document order, its title attribute
Element(nodes, title) == [nodes |-> nodes, title |-> title]

\* the result of select_one / find when nothing matches
NoElem == [none |-> TRUE]

\* elem.get_text(separator=sep, strip=True)
get_text(elem, sep) == JStr(Join(StrippedNodes(elem.nodes), sep))

\* str.replace(old, "") for a two-character old
RECURSIVE Remove2(_, _)
Remove2(s, old) ==
    IF Len(s) < 2 THEN s
    ELSE IF <<s[1], s[2]>> = old THEN Remove2(SubSeq(s, 3, Len(s)), old)
    ELSE <<s[1]>> \o Remove2(Tail(s), old)

EndsWith(s, suf) == Len(s) >= Len(suf) /\ SubSeq(s, Len(s) - Len(suf) + 1, Len(s)) = suf

\* s without its trailing whitespace
RECURSIVE RStrip(_)
RStrip(s) ==
    IF s # <<>> /\ s[Len(s)] \in Whitespace THEN RStrip(SubSeq(s, 1, Len(s) - 1)) ELSE s

\* re.sub(r'\s*points?$', '', s)
SubPoints(s) ==
    IF EndsWith(s, <<"p", "o", "i", "n", "t", "s">>) THEN RStrip(SubSeq(s, 1, Len(s) - 6))
    ELSE IF EndsWith(s, <<"p", "o", "i", "n", "t">>) THEN RStrip(SubSeq(s, 1, Len(s) - 5))
    ELSE s

\* \w
WordChars == Letters \cup Digits \cup {"_"}

\* the position after the whitespace that starts at p
SkipSpace(s, p) == IF p <= Len(s) /\ s[p] \in Whitespace THEN RunEnd(s, p, Whitespace) + 1 ELSE p

\* whether \s*:\s*r/\w+\s*$ matches s from position p
SuffixAt(s, p) ==
    LET a == SkipSpace(s, p)
        b == SkipSpace(s, a + 1)
    IN  /\ a <= Len(s) /\ s[a] = ":"
        /\ b + 2 <= Len(s)
        /\ s[b] = "r" /\ s[b + 1] = "/" /\ s[b + 2] \in WordChars
        /\ SkipSpace(s, RunEnd(s, b + 2, WordChars) + 1) = Len(s) + 1

\* re.sub(r"\s*:\s*r/\w+\s*$", "", s)
SubSubredditSuffix(s) ==
    IF \E p \in 1..Len(s) : SuffixAt(s, p)
    THEN SubSeq(s, 1, Min({p \in 1..Len(s) : SuffixAt(s, p)}) - 1)
    ELSE s

\* re.search(r"r/(\w+)", url), "Unknown" when there is no match
_extract_subreddit(u) ==
    LET starts == {p \in 1..Len(u) : p + 2 <= Len(u) /\ u[p] = "r" /\ u[p + 1] = "/"
                                     /\ u[p + 2] \in WordChars}
    IN  IF starts = {} THEN JStr(<<"U", "n", "k", "n", "o", "w", "n">>)
        ELSE JStr(SubSeq(u, Min(starts) + 2, RunEnd(u, Min(starts) + 2, WordChars)))

title_selectors ==
    <<"a.title", "h1", "[slot=\"title\"]", "shreddit-post h1",
      "[data-testid=\"post-title\"]", "p.title a.title">>
author_selectors ==
    <<"a.author", "[slot=\"authorName\"]", "shreddit-post [slot=\"authorName\"]",
      "a[href*=\"/user/\"]", "p.tagline a.author">>
score_selectors ==
    <<"div.score.unvoted", "div.score", "[slot=\"score\"]",
      "shreddit-post [slot=\"score\"]", "[data-testid=\"post-score\"]">>
text_selectors ==
    <<"div.expando div.usertext-body", "div.expando div.md", "form.usertext div.md",
      "[slot=\"text-body\"]", "div[data-testid=\"post-content\"]",
      "shreddit-post div[slot=\"text-body\"]">>
comment_author_selectors ==
    <<"a.author", "[slot=\"authorName\"]", "a[href*=\"/user/\"]", "p.tagline a.author">>
comment_text_selectors ==
    <<"div.md", "div.usertext-body div.md", "[slot=\"comment\"]",
      "div[data-testid=\"comment-text\"]">>
comment_score_selectors ==
    <<"span.score.unvoted", "span.score", "[slot=\"score\"]",
      "[data-testid=\"vote-score\"]">>
time_selectors == <<"time", "p.tagline time", "[slot=\"timestamp\"]">>

Range(f) == {f[i] : i \in DOMAIN f}

\* every locator the resolvers use
Selectors ==
    Range(title_selectors) \cup Range(author_selectors) \cup Range(score_selectors)
    \cup Range(text_selectors) \cup Range(comment_author_selectors)
    \cup Range(comment_text_selectors) \cup Range(comment_score_selectors)
    \cup Range(time_selectors) \cup {"title", "[class*=\"score\"]"}

\* root.select_one(selector): a tree is the table of the first element each
\* locator matches in it
select_one(root, selector) == root[selector]

\* the index of the last selector of the list that matches in root
LastMatch(root, selectors) ==
    LET matching == {i \in 1..Len(selectors) : select_one(root, selectors[i]) # NoElem}
    IN  IF matching = {} THEN 0 ELSE CHOOSE i \in matching : \A j \in matching : j <= i

\* the index of the first selector of the list that matches an element with
\* some text in root
FirstNonEmptyMatch(root, selectors) ==
    LET matching == {i \in 1..Len(selectors) :
                        /\ select_one(root, selectors[i]) # NoElem
                        /\ StrippedNodes(select_one(root, selectors[i]).nodes) # <<>>}
    IN  IF matching = {} THEN 0 ELSE Min(matching)

\* the index of the first selector of the list that matches in root, 0 if none
FirstMatch(root, selectors) ==
    IF \E i \in 1..Len(selectors) : select_one(root, selectors[i]) # NoElem
    THEN Min({i \in 1..Len(selectors) : select_one(root, selectors[i]) # NoElem})
    ELSE 0

\* for selector in selectors: elem = root.select_one(selector); if elem: return
\* the element, NoElem when the loop ends
FirstElem(root, selectors) ==
    IF FirstMatch(root, selectors) = 0 THEN NoElem
    ELSE select_one(root, selectors[FirstMatch(root, selectors)])

Reddit_extract_title(soup) ==
    LET title_elem == FirstElem(soup, title_selectors)
    IN  IF title_elem # NoElem THEN get_text(title_elem, <<>>)
        ELSE IF select_one(soup, "title") # NoElem
        THEN JStr(SubSubredditSuffix(get_text(select_one(soup, "title"), <<>>).s))
        ELSE JStr(<<"U", "n", "k", "n", "o", "w", "n", " ", "T", "i", "t", "l", "e">>)

\* _extract_author without its last return
Reddit_extract_authorOrNone(soup) ==
    LET author_elem == FirstElem(soup, author_selectors)
    IN  IF author_elem # NoElem THEN JStr(Remove2(get_text(author_elem, <<>>).s, <<"u", "/">>))
        ELSE PyNone

Reddit_extract_author(soup) ==
    LET author_elem == FirstElem(soup, author_selectors)
    IN  IF author_elem # NoElem THEN JStr(Remove2(get_text(author_elem, <<>>).s, <<"u", "/">>))
        ELSE JStr(<<"U", "n", "k", "n", "o", "w", "n">>)

Reddit_extract_score(soup) ==
    LET score_elem == FirstElem(soup, score_selectors)
        by_class == select_one(soup, "[class*=\"score\"]")
    IN  IF score_elem # NoElem THEN get_text(score_elem, <<>>)
        ELSE IF by_class # NoElem /\ Truthy(by_class.title) THEN by_class.title
        ELSE PyNone

_extract_post_text(soup) ==
    LET text_elem == FirstElem(soup, text_selectors)
    IN  IF text_elem # NoElem THEN get_text(text_elem, <<"\n">>) ELSE PyNone

_extract_comment_author(comment_elem) ==
    LET author_elem == FirstElem(comment_elem, comment_author_selectors)
    IN  IF author_elem # NoElem THEN JStr(Remove2(get_text(author_elem, <<>>).s, <<"u", "/">>))
        ELSE JStr(<<"U", "n", "k", "n", "o", "w", "n">>)

_extract_comment_text(comment_elem) ==
    LET text_elem == FirstElem(comment_elem, comment_text_selectors)
    IN  IF text_elem # NoElem THEN get_text(text_elem, <<"\n">>) ELSE PyNone

_extract_comment_score(comment_elem) ==
    LET score_elem == FirstElem(comment_elem, comment_score_selectors)
    IN  IF score_elem # NoElem THEN JStr(SubPoints(get_text(score_elem, <<>>).s)) ELSE PyNone

_extract_comment_timestamp(comment_elem) ==
    LET time_elem == FirstElem(comment_elem, time_selectors)
    IN  IF time_elem = NoElem THEN PyNone
        ELSE IF Truthy(time_elem.title) THEN time_elem.title
        ELSE get_text(time_elem, <<>>)

----------------------------------------------------------------------------
(* Sample inputs of the thread extractor and of the field resolvers *)

\* most locators of one field that match in a sample tree
MaxMatched == 2
\* most comment containers the chosen locator yields
MaxContainers == 3

\* the tree in which no locator matches
EmptyTree == [sel \in Selectors |-> NoElem]

\* the tree in which exactly the locators of DOMAIN f match, sel on f[sel]
Tree(f) == [sel \in Selectors |-> IF sel \in DOMAIN f THEN f[sel] ELSE NoElem]

SampleElems ==
    {Element(<<>>, PyNone),
     Element(<<<<" ">>>>, PyNone),
     Element(<<<<"a">>>>, PyNone),
     Element(<<<<" ", "b", " ">>, <<"c">>>>, JStr(<<"T">>)),
     Element(<<<<"u", "/", "d">>>>, JStr(<<>>)),
     Element(<<<<"5", " ", "p", "o", "i", "n", "t", "s">>>>, PyNone),
     Element(<<<<"e", " ", ":", " ", "r", "/", "a", "b", " ">>>>, PyNone)}

\* a locator that can only match where a more general one matches too
Subsumes ==
    {<<"p.title a.title", "a.title">>,
     <<"shreddit-post h1", "h1">>,
     <<"p.tagline a.author", "a.author">>,
     <<"shreddit-post [slot=\"authorName\"]", "[slot=\"authorName\"]">>,
     <<"div.score.unvoted", "div.score">>,
     <<"div.score", "[class*=\"score\"]">>,
     <<"shreddit-post [slot=\"score\"]", "[slot=\"score\"]">>,
     <<"shreddit-post div[slot=\"text-body\"]", "[slot=\"text-body\"]">>,
     <<"div.usertext-body div.md", "div.md">>,
     <<"span.score.unvoted", "span.score">>,
     <<"span.score", "[class*=\"score\"]">>,
     <<"p.tagline time", "time">>}

WellFormed(tree) == \A p \in Subsumes : tree[p[1]] # NoElem => tree[p[2]] # NoElem

\* the field resolvers and the locators each one tries
Fields ==
    {"title", "author", "score", "post_text",
     "comment_author", "comment_text", "comment_score", "comment_timestamp"}

FieldSelectors(f) ==
    CASE f = "title" -> title_selectors
      [] f = "author" -> author_selectors
      [] f = "score" -> score_selectors
      [] f = "post_text" -> text_selectors
      [] f = "comment_author" -> comment_author_selectors
      [] f = "comment_text" -> comment_text_selectors
      [] f = "comment_score" -> comment_score_selectors
      [] OTHER -> time_selectors

\* the locators a resolver falls back to after its list
FallbackSelectors(f) ==
    CASE f = "title" -> {"title"}
      [] f = "score" -> {"[class*=\"score\"]"}
      [] OTHER -> {}

Resolver(f, root) ==
    CASE f = "title" -> Reddit_extract_title(root)
      [] f = "author" -> Reddit_extract_author(root)
      [] f = "score" -> Reddit_extract_score(root)
      [] f = "post_text" -> _extract_post_text(root)
      [] f = "comment_author" -> _extract_comment_author(root)
      [] f = "comment_text" -> _extract_comment_text(root)
      [] f = "comment_score" -> _extract_comment_score(root)
      [] OTHER -> _extract_comment_timestamp(root)

\* the trees in which at most MaxMatched locators of field f match
TreesFor(f) ==
    LET locators == Range(FieldSelectors(f)) \cup FallbackSelectors(f)
        matched == {S \in SUBSET locators : Cardinality(S) <= MaxMatched}
        trees == {Tree(g) : g \in UNION {[S -> SampleElems] : S \in matched}}
    IN  {t \in trees : WellFormed(t)}

comment_selectors ==
    <<"div.comment", "div.entry", "shreddit-comment", "[data-testid=\"comment\"]",
      "div.Comment">>

\* a comment container: its class attribute, the tree below it, and the
\* extraction step at which processing it raises ("none": no step does)
Container(class, tree, fault) == [class |-> class, tree |-> tree, fault |-> fault]

OldComment ==
    Tree([sel \in {"div.md", "a.author", "span.score", "[class*=\"score\"]", "time"} |->
            CASE sel = "div.md" -> Element(<<<<"a">>>>, PyNone)
              [] sel = "a.author" -> Element(<<<<"u", "/", "d">>>>, PyNone)
              [] sel = "time" -> Element(<<<<"1", "h">>>>, JStr(<<"T">>))
              [] OTHER -> Element(<<<<"5", " ", "p", "o", "i", "n", "t", "s">>>>, PyNone)])

NewComment ==
    Tree([sel \in {"[slot=\"comment\"]", "[slot=\"authorName\"]", "time"} |->
            CASE sel = "[slot=\"comment\"]" -> Element(<<<<" ", "b", " ">>, <<"c">>>>, PyNone)
              [] sel = "time" -> Element(<<<<"2", "h">>>>, PyNone)
              [] OTHER -> Element(<<<<"e">>>>, PyNone)])

\* the first text locator matches an empty element, a later one a text
ShadowedComment ==
    Tree([sel \in {"div.md", "[slot=\"comment\"]"} |->
            IF sel = "div.md" THEN Element(<<>>, PyNone) ELSE Element(<<<<"b">>>>, PyNone)])

BlankComment == Tree([sel \in {"div.md"} |-> Element(<<<<" ">>, <<"\n">>>>, PyNone)])

SampleContainers ==
    {Container({"comment"}, t, "none") :
        t \in {OldComment, NewComment, ShadowedComment, BlankComment, EmptyTree}}
    \cup {Container({"comment"}, OldComment, f) : f \in {"text", "timestamp"}}
    \cup {Container(c, NewComment, "none") : c \in {{"comment", "entry"}, {"entry"}, {}}}

\* the containers a locator of comment_selectors can yield: div.comment selects
\* elements of class comment, div.entry elements of class entry
ContainersOf(selector) ==
    CASE selector = "div.comment" -> {c \in SampleContainers : "comment" \in c.class}
      [] selector = "div.entry" -> {c \in SampleContainers : "entry" \in c.class}
      [] OTHER -> SampleContainers

NoContainers == [sel \in Range(comment_selectors) |-> <<>>]

\* the results of soup.select for the comment locators: one locator yields up
\* to most containers, and a later one may yield one more; where div.comment
\* yields nothing no div is of class comment
SampleSelections(most) ==
    UNION {{[NoContainers EXCEPT ![comment_selectors[i]] = list] :
                list \in UNION {[1..n -> ContainersOf(comment_selectors[i])] :
                                   n \in 0..most}} :
            i \in {1, 3}}
    \cup {[NoContainers EXCEPT ![comment_selectors[2]] = <<c>>,
                               ![comment_selectors[3]] = <<d>>] :
            c \in {Container({"entry"}, NewComment, "none")},
            d \in {Container({}, OldComment, "none")}}

OldRedditTree ==
    Tree([sel \in {"a.title", "a.author", "div.score", "[class*=\"score\"]",
                   "div.expando div.md", "title"} |->
            CASE sel = "a.title" -> Element(<<<<"t">>>>, PyNone)
              [] sel = "a.author" -> Element(<<<<"u", "/", "d">>>>, PyNone)
              [] sel = "div.expando div.md" -> Element(<<<<"p">>, <<"q">>>>, PyNone)
              [] sel = "title" -> Element(<<<<"t", " ", ":", " ", "r", "/", "a", "b">>>>, PyNone)
              [] OTHER -> Element(<<<<"7">>>>, JStr(<<"7">>))])

ThreadUrl == <<"h", "t", "t", "p", "s", ":", "/", "/", "w", "w", "w", ".", "r", "e", "d", "d", "i", "t", ".", "c", "o", "m", "/", "r", "/", "a", "b", "/", "c", "o", "m", "m", "e", "n", "t", "s", "/", "1">>
SiteUrl == <<"h", "t", "t", "p", "s", ":", "/", "/", "r", "e", "d", "d", "i", "t", ".", "c", "o", "m", "/">>

\* the (tree, URL) pairs a thread run starts from
ThreadInputs == {[soup |-> OldRedditTree, url |-> ThreadUrl],
                 [soup |-> EmptyTree, url |-> SiteUrl]}

----------------------------------------------------------------------------
(* State *)

VARIABLES
    mode,               \* which entry point this run exercises
    pc,                 \* the statement the run is at
    url,                \* the url argument
    stderr,             \* the warnings printed so far
    fields,             \* the fields parse_thread / parse_video extracted
    raised,             \* the exception that left the entry point
    idx,                \* the items the for loop has consumed
    comments,           \* the comments list being built
    \* RedditParser
    soup,               \* self.soup: the first element each locator matches
    soup_select,        \* the results of self.soup.select for the comment locators
    comment_elements,
    thread,             \* the RedditThread returned
    \* one field resolver on its own
    field,
    resolved,
    \* YouTubeParser and parse_video
    yt_initial_data,    \* self.yt_initial_data
    scraper,            \* whether self.scraper is set
    include_comments,   \* the include_comments argument
    comment_char_limit, \* the comment_char_limit argument
    ret,                \* (comments, comments_truncated) of parse_video
    video,              \* the YouTubeVideo returned
    api_calls,          \* the requests.post calls made
    \* _extract_comments
    continuation_token,
    comments_data,
    comment_threads,
    total_chars,
    truncated,
    \* scrape_url
    html_content,       \* the document fetch_text returned
    output_file,        \* whether an output file was asked for
    parser,             \* the parser class scrape_url constructed
    cli_data,           \* data: the record the parser returned
    output,             \* where the formatted record went
    exit_code,          \* the status the process ended with
    requested,          \* the URL fetch sent its request to
    \* a second extraction call of the same process
    other               \* the private state of the call that is not running

redditVars == <<soup, soup_select, comment_elements, thread, field, resolved>>

videoVars ==
    <<yt_initial_data, scraper, include_comments, comment_char_limit, ret, video,
      api_calls, continuation_token, comments_data, comment_threads, total_chars,
      truncated>>

cliVars == <<html_content, output_file, parser, cli_data, output, exit_code, requested>>

vars ==
    <<mode, pc, url, stderr, fields, raised, idx, comments, redditVars, videoVars, cliVars,
      other>>

Warning(w, k) == [w |-> w, idx |-> k]

NoRet == [comments |-> PyNone, truncated |-> FALSE]

\* the frame of _extract_comments before it is entered
NoFrame ==
    /\ continuation_token = PyNone
    /\ comments_data = PyNone
    /\ comment_threads = <<>>
    /\ idx = 0
    /\ comments = <<>>
    /\ total_chars = 0
    /\ truncated = FALSE

\* no RedditParser in this run
NoReddit ==
    /\ soup = EmptyTree
    /\ soup_select = NoContainers
    /\ comment_elements = <<>>
    /\ thread = PyNone
    /\ field = "none"
    /\ resolved = PyNone

\* no YouTubeParser in this run
NoVideo ==
    /\ yt_initial_data = PyNone
    /\ scraper = FALSE
    /\ include_comments = FALSE
    /\ comment_char_limit = 0
    /\ ret = NoRet
    /\ video = PyNone
    /\ api_calls = 0
    /\ NoFrame

\* scrape_url is not part of this run
NoCli ==
    /\ html_content = PyNone
    /\ output_file = FALSE
    /\ parser = "none"
    /\ cli_data = PyNone
    /\ output = "none"
    /\ exit_code = PyNone
    /\ requested = PyNone

\* one extraction call only
NoOther == other = PyNone

\* what _extract_initial_data printed: nothing when the blob decoded, one
\* warning when the page holds no blob or the blob is not JSON
InitialDataWarnings(data) ==
    IF data = PyNone
    THEN {<<Warning("no_initial_data", 0)>>, <<Warning("bad_initial_data", 0)>>}
    ELSE {<<>>}

\* a YouTubeParser constructed on a page, parse_video about to be called
VideoStart ==
    /\ mode = "video"
    /\ pc = "parse_video"
    /\ \E inp \in VideoInputs : yt_initial_data = inp.data /\ url = inp.url
    /\ stderr \in InitialDataWarnings(yt_initial_data)
    /\ scraper \in BOOLEAN
    /\ include_comments \in BOOLEAN
    /\ comment_char_limit \in 0..MaxLimit
    /\ fields = PyNone
    /\ ret = NoRet
    /\ video = PyNone
    /\ raised = PyNone
    /\ api_calls = 0
    /\ NoFrame
    /\ NoReddit

InitVideo == VideoStart /\ NoCli /\ NoOther

\* a RedditParser constructed on a page, parse_thread about to be called
ThreadStart(selections) ==
    /\ mode = "thread"
    /\ pc = "parse_thread"
    /\ stderr = <<>>
    /\ \E inp \in ThreadInputs : soup = inp.soup /\ url = inp.url
    /\ soup_select \in selections
    /\ comment_elements = <<>>
    /\ thread = PyNone
    /\ field = "none"
    /\ resolved = PyNone
    /\ fields = PyNone
    /\ raised = PyNone
    /\ NoVideo

InitThread == ThreadStart(SampleSelections(MaxContainers)) /\ NoCli /\ NoOther

\* one field resolver about to be applied to a tree
InitResolve ==
    /\ mode = "resolve"
    /\ NoCli
    /\ NoOther
    /\ pc = "resolve"
    /\ stderr = <<>>
    /\ url = <<>>
    /\ field \in Fields
    /\ soup \in TreesFor(field)
    /\ soup_select = NoContainers
    /\ comment_elements = <<>>
    /\ thread = PyNone
    /\ resolved = PyNone
    /\ fields = PyNone
    /\ raised = PyNone
    /\ NoVideo

\* a YouTubeParser constructed on a page, the description links about to
\* be extracted
InitLinks ==
    /\ mode = "links"
    /\ NoCli
    /\ NoOther
    /\ pc = "_extract_description_links"
    /\ yt_initial_data \in LinkGraphs
    /\ url = WatchUrl
    /\ stderr = <<>>
    /\ scraper = FALSE
    /\ include_comments = FALSE
    /\ comment_char_limit = 0
    /\ fields = PyNone
    /\ ret = NoRet
    /\ video = PyNone
    /\ raised = PyNone
    /\ api_calls = 0
    /\ NoFrame
    /\ NoReddit

\* the URLs the command line is given
ArticleUrl == <<"h", "t", "t", "p", "s", ":", "/", "/", "x", ".", "y", "/", "a">>
SharedUrl == <<"h", "t", "t", "p", "s", ":", "/", "/", "x", ".", "y", "/", "?", "u", "=", "r", "e", "d", "d", "i", "t", ".", "c", "o", "m">>
OldThreadUrl == <<"h", "t", "t", "p", "s", ":", "/", "/", "o", "l", "d", ".", "r", "e", "d", "d", "i", "t", ".", "c", "o", "m", "/", "r", "/", "a", "b">>
OldNamedUrl == <<"h", "t", "t", "p", "s", ":", "/", "/", "r", "e", "d", "d", "i", "t", ".", "c", "o", "m", "/", "r", "/", "o", "l", "d", ".", "x">>
MirrorUrl == <<"h", "t", "t", "p", "s", ":", "/", "/", "w", "w", "w", ".", "r", "e", "d", "d", "i", "t", ".", "c", "o", "m", "/", "?", "u", "=", "w", "w", "w", ".", "r", "e", "d", "d", "i", "t", ".", "c", "o", "m">>
CliUrls ==
    {ThreadUrl, SiteUrl, WatchUrl, ShortUrl, ArticleUrl, SharedUrl, OldThreadUrl,
     OldNamedUrl, MirrorUrl}

\* the kinds of document a fetch can return
Documents == {"thread_page", "watch_page", "article"}

\* scrape_url called on a URL
InitCli ==
    /\ mode = "cli"
    /\ pc = "fetch_text"
    /\ url \in CliUrls
    /\ output_file \in BOOLEAN
    /\ html_content = PyNone
    /\ parser = "none"
    /\ cli_data = PyNone
    /\ output = "none"
    /\ exit_code = PyNone
    /\ requested = PyNone
    /\ stderr = <<>>
    /\ fields = PyNone
    /\ raised = PyNone
    /\ NoVideo
    /\ NoReddit
    /\ NoOther


----------------------------------------------------------------------------
(* RedditParser.parse_thread and the field resolvers *)

RedditComment(author, text, score, timestamp) ==
    [author |-> author, text |-> text, score |-> score, timestamp |-> timestamp]

\* the result of the first locator of comment_selectors that yields an
\* element, [] when none does
SelectedBy(selected) ==
    IF \E i \in 1..Len(comment_selectors) : selected[comment_selectors[i]] # <<>>
    THEN selected[comment_selectors[
            Min({i \in 1..Len(comment_selectors) : selected[comment_selectors[i]] # <<>>})]]
    ELSE <<>>

\* "comment" in str(elem.get('class', [])): a class that holds the word
MentionsComment(elem) == elem.class \cap {"comment", "commentarea"} # {}

IsTopLevelWithEntry(elem) == "comment" \in elem.class
IsTopLevel(elem) == "comment" \in elem.class /\ "entry" \notin elem.class

\* the comment elements _extract_comments iterates over
SelectComments(selected) ==
    LET comment_elems == SelectedBy(selected)
        filtered == SelectSeq(comment_elems, IsTopLevel)
    IN  IF comment_elems # <<>>
           /\ (\E i \in 1..Len(comment_elems) : MentionsComment(comment_elems[i]))
           /\ filtered # <<>>
        THEN filtered
        ELSE comment_elems

\* if not text or not text.strip()
UnusableNoneOnly(text) == text = PyNone
Unusable(text) == ~Truthy(text) \/ Strip(text.s) = <<>>

\* enumerate(comment_elements, start=1): the position of the element that
\* follows the consumed ones
OrdinalFromZero(consumed) == consumed
Ordinal(consumed) == consumed + 1

\* comments.append(comment)
AddCommentFirst(list, comment) == <<comment>> \o list
AddComment(list, comment) == Append(list, comment)

\* the body of the try block on one comment element: "raise" when a step
\* raises, "skip" when there is no usable text, else the RedditComment
ProcessElem(comment_elem) ==
    LET author == _extract_comment_author(comment_elem.tree)
        text == _extract_comment_text(comment_elem.tree)
        score == _extract_comment_score(comment_elem.tree)
        timestamp == _extract_comment_timestamp(comment_elem.tree)
    IN  IF comment_elem.fault \in {"author", "text"} THEN [outcome |-> "raise"]
        ELSE IF Unusable(text) THEN [outcome |-> "skip"]
        ELSE IF comment_elem.fault \in {"score", "timestamp"} THEN [outcome |-> "raise"]
        ELSE [outcome |-> "append",
              comment |-> RedditComment(author, text, score, timestamp)]

\* parse_thread: title, subreddit, author, score and text
ParseThreadFields ==
    /\ mode = "thread"
    /\ UNCHANGED <<cliVars, other>>
    /\ pc = "parse_thread"
    /\ fields' = [title |-> Reddit_extract_title(soup),
                  subreddit |-> _extract_subreddit(url),
                  author |-> Reddit_extract_author(soup),
                  score |-> Reddit_extract_score(soup),
                  text |-> _extract_post_text(soup)]
    /\ pc' = "_extract_comments"
    /\ UNCHANGED <<mode, url, stderr, raised, idx, comments, redditVars, videoVars>>

\* _extract_comments: the comment elements
SelectCommentElements ==
    /\ mode = "thread"
    /\ UNCHANGED <<cliVars, other>>
    /\ pc = "_extract_comments"
    /\ comments' = <<>>
    /\ comment_elements' = SelectComments(soup_select)
    /\ idx' = 0
    /\ pc' = "comments"
    /\ UNCHANGED <<mode, url, stderr, fields, raised, soup, soup_select, thread,
                   field, resolved, videoVars>>

\* one iteration of the for loop over comment_elements
ProcessComment ==
    /\ mode = "thread"
    /\ UNCHANGED <<cliVars, other>>
    /\ pc = "comments"
    /\ idx < Len(comment_elements)
    /\ LET r == ProcessElem(comment_elements[idx + 1])
       IN  /\ comments' = IF r.outcome = "append" THEN AddComment(comments, r.comment)
                          ELSE comments
           /\ stderr' = IF r.outcome = "raise"
                        THEN Append(stderr, Warning("parse_comment", Ordinal(idx)))
                        ELSE stderr
    /\ idx' = idx + 1
    /\ UNCHANGED <<mode, pc, url, fields, raised, redditVars, videoVars>>

\* return comments, and the RedditThread built from them
ReturnThread ==
    /\ mode = "thread"
    /\ UNCHANGED <<cliVars, other>>
    /\ pc = "comments"
    /\ idx = Len(comment_elements)
    /\ thread' = [title |-> fields.title,
                  author |-> fields.author,
                  subreddit |-> fields.subreddit,
                  score |-> fields.score,
                  text |-> fields.text,
                  url |-> url,
                  comments |-> comments]
    /\ pc' = "done"
    /\ UNCHANGED <<mode, url, stderr, fields, raised, idx, comments, soup, soup_select,
                   comment_elements, field, resolved, videoVars>>

NextThread ==
    \/ ParseThreadFields
    \/ SelectCommentElements
    \/ ProcessComment
    \/ ReturnThread

\* one field resolver applied to the tree
Resolve ==
    /\ mode = "resolve"
    /\ UNCHANGED <<cliVars, other>>
    /\ pc = "resolve"
    /\ resolved' = Resolver(field, soup)
    /\ pc' = "done"
    /\ UNCHANGED <<mode, url, stderr, fields, raised, idx, comments, soup, soup_select,
                   comment_elements, thread, field, videoVars>>

NextResolve == Resolve

SpecThread == InitThread /\ [][NextThread]_vars

SpecResolve == InitResolve /\ [][NextResolve]_vars

----------------------------------------------------------------------------
(* YouTubeParser.parse_video and _extract_comments *)

\* if not self.yt_initial_data
DataMissingUnchecked(data) == FALSE
DataMissing(data) == ~Truthy(data)

\* if include_comments and self.scraper
WantsCommentsAlways(include, has_scraper) == has_scraper
WantsComments(include, has_scraper) == include /\ has_scraper

\* if not continuation_token
TokenMissingUnchecked(token) == FALSE
TokenMissing(token) == ~Truthy(token)

\* if total_chars + comment_text_len > char_limit
OverBudgetAtLimit(total, len, limit) == total + len >= limit
OverBudget(total, len, limit) == total + len > limit

PropagatesNothing(video_id, title) == NotFound
\* the exception that leaves parse_video before the comments are looked at,
\* NotFound when there is none
Propagates(video_id, title) ==
    IF IsExc(video_id) THEN video_id
    ELSE IF IsExc(title) THEN title
    ELSE NotFound

\* parse_video up to the decision to fetch comments
ParseVideo ==
    /\ mode = "video"
    /\ UNCHANGED <<cliVars, other>>
    /\ pc = "parse_video"
    /\ LET video_id == IF DataMissing(yt_initial_data) THEN Exc("ValueError")
                       ELSE _extract_video_id(url)
           video_details == _get_video_details(yt_initial_data)
           title == _extract_title(video_details)
           exc == Propagates(video_id, title)
       IN  IF exc # NotFound
           THEN /\ raised' = exc
                /\ pc' = "raised"
                /\ UNCHANGED fields
           ELSE /\ fields' = [video_id |-> video_id,
                              title |-> title,
                              channel_name |-> _extract_channel_name(yt_initial_data),
                              description |-> _extract_description(yt_initial_data),
                              description_links |->
                                  JList(_extract_description_links(yt_initial_data)),
                              view_count |-> _extract_view_count(video_details),
                              upload_date |-> _extract_upload_date(video_details),
                              like_count |-> _extract_like_count(yt_initial_data)]
                /\ pc' = IF WantsComments(include_comments, scraper) THEN "_extract_comments"
                         ELSE "return"
                /\ UNCHANGED raised
    /\ UNCHANGED <<redditVars, mode, url, stderr, yt_initial_data, scraper, include_comments,
                   comment_char_limit, ret, video, api_calls, continuation_token,
                   comments_data, comment_threads, idx, comments, total_chars, truncated>>

\* _extract_comments: the continuation token
ExtractToken ==
    /\ mode = "video"
    /\ UNCHANGED <<cliVars, other>>
    /\ pc = "_extract_comments"
    /\ LET token == _extract_continuation_token(yt_initial_data)
       IN  IF ~scraper
           THEN /\ ret' = NoRet
                /\ pc' = "return"
                /\ UNCHANGED <<stderr, continuation_token>>
           ELSE IF TokenMissing(token)
           THEN /\ stderr' = Append(stderr, Warning("no_token", 0))
                /\ ret' = NoRet
                /\ pc' = "return"
                /\ UNCHANGED continuation_token
           ELSE /\ continuation_token' = token
                /\ pc' = "fetch"
                /\ UNCHANGED <<stderr, ret>>
    /\ UNCHANGED <<redditVars, mode, url, yt_initial_data, scraper, include_comments,
                   comment_char_limit, fields, video, raised, api_calls,
                   comments_data, comment_threads, idx, comments, total_chars, truncated>>

\* the request fails and nothing catches it short of parse_video's caller
FetchFailsUncaught ==
    /\ mode = "video"
    /\ UNCHANGED <<cliVars, other>>
    /\ pc = "fetch"
    /\ api_calls' = api_calls + 1
    /\ raised' = Exc("RequestsError")
    /\ pc' = "raised"
    /\ UNCHANGED <<redditVars, mode, url, stderr, yt_initial_data, scraper,
                   include_comments, comment_char_limit, fields, ret, video,
                   continuation_token, comments_data, comment_threads, idx, comments,
                   total_chars, truncated>>

\* _fetch_comments_api raises inside its try (network failure, timeout, HTTP
\* error status, undecodable body): warning, None, and (None, False)
FetchFails ==
    /\ mode = "video"
    /\ UNCHANGED <<cliVars, other>>
    /\ pc = "fetch"
    /\ api_calls' = api_calls + 1
    /\ stderr' = Append(stderr, Warning("api_failed", 0))
    /\ comments_data' = PyNone
    /\ ret' = NoRet
    /\ pc' = "return"
    /\ UNCHANGED <<redditVars, mode, url, yt_initial_data, scraper, include_comments,
                   comment_char_limit, fields, video, raised, continuation_token,
                   comment_threads, idx, comments, total_chars, truncated>>

\* the bodies the API answers with: the short ones where two calls run side
\* by side
AnsweredPages == IF other = PyNone THEN SamplePages ELSE ShortPages

\* _fetch_comments_api returns the decoded body; an empty body ends the
\* assembler, any other is decoded into comment_threads
FetchReturns ==
    /\ mode = "video"
    /\ UNCHANGED <<cliVars, other>>
    /\ pc = "fetch"
    /\ api_calls' = api_calls + 1
    /\ \E page \in AnsweredPages :
        /\ comments_data' = page
        /\ IF ~Truthy(page)
           THEN /\ ret' = NoRet
                /\ pc' = "return"
                /\ UNCHANGED <<comment_threads, idx, comments, total_chars, truncated>>
           ELSE /\ comments' = <<>>
                /\ total_chars' = 0
                /\ truncated' = FALSE
                /\ comment_threads' = _extract_comment_threads(page)
                /\ idx' = 0
                /\ pc' = "scan"
                /\ UNCHANGED ret
    /\ UNCHANGED <<redditVars, mode, url, stderr, yt_initial_data, scraper, include_comments,
                   comment_char_limit, fields, video, raised, continuation_token>>

\* one iteration of the for loop over comment_threads
ScanComment ==
    /\ mode = "video"
    /\ UNCHANGED <<cliVars, other>>
    /\ pc = "scan"
    /\ ~truncated
    /\ idx < Len(comment_threads)
    /\ LET r == _parse_comment_thread(comment_threads[idx + 1])
           comment_text_len == PyLen(r.comment.text)
       IN  IF r.comment = NoComment
           THEN /\ stderr' = IF r.warned THEN Append(stderr, Warning("parse_comment", 0))
                             ELSE stderr
                /\ idx' = idx + 1
                /\ UNCHANGED <<pc, ret, comments, total_chars, truncated>>
           ELSE IF IsExc(comment_text_len)
           THEN /\ stderr' = Append(stderr, Warning("extract_failed", 0))
                /\ ret' = NoRet
                /\ pc' = "return"
                /\ UNCHANGED <<idx, comments, total_chars, truncated>>
           ELSE IF OverBudget(total_chars, comment_text_len.n, comment_char_limit)
           THEN /\ truncated' = TRUE
                /\ UNCHANGED <<pc, stderr, ret, idx, comments, total_chars>>
           ELSE /\ comments' = Append(comments, r.comment)
                /\ total_chars' = total_chars + comment_text_len.n
                /\ idx' = idx + 1
                /\ UNCHANGED <<pc, stderr, ret, truncated>>
    /\ UNCHANGED <<redditVars, mode, url, yt_initial_data, scraper, include_comments,
                   comment_char_limit, fields, video, raised, api_calls,
                   continuation_token, comments_data, comment_threads>>

ReturnedFlagOnlyWithComments(included, flag) ==
    [comments |-> IF included # <<>> THEN JList(included) ELSE PyNone,
     truncated |-> flag /\ included # <<>>]
\* the pair (comments if comments else None, truncated)
Returned(included, flag) ==
    [comments |-> IF included # <<>> THEN JList(included) ELSE PyNone,
     truncated |-> flag]

\* return comments if comments else None, truncated
ReturnComments ==
    /\ mode = "video"
    /\ UNCHANGED <<cliVars, other>>
    /\ pc = "scan"
    /\ truncated \/ idx = Len(comment_threads)
    /\ ret' = Returned(comments, truncated)
    /\ pc' = "return"
    /\ UNCHANGED <<redditVars, mode, url, stderr, yt_initial_data, scraper, include_comments,
                   comment_char_limit, fields, video, raised, api_calls,
                   continuation_token, comments_data, comment_threads, idx, comments,
                   total_chars, truncated>>

\* return YouTubeVideo(...)
ReturnVideo ==
    /\ mode = "video"
    /\ UNCHANGED <<cliVars, other>>
    /\ pc = "return"
    /\ video' = [title |-> fields.title,
                 channel_name |-> fields.channel_name,
                 description |-> fields.description,
                 description_links |-> fields.description_links,
                 view_count |-> fields.view_count,
                 upload_date |-> fields.upload_date,
                 like_count |-> fields.like_count,
                 video_id |-> fields.video_id,
                 url |-> url,
                 comments |-> ret.comments,
                 comments_truncated |-> ret.truncated]
    /\ pc' = "done"
    /\ UNCHANGED <<redditVars, mode, url, stderr, yt_initial_data, scraper, include_comments,
                   comment_char_limit, fields, ret, raised, api_calls,
                   continuation_token, comments_data, comment_threads, idx, comments,
                   total_chars, truncated>>

NextVideo ==
    \/ ParseVideo
    \/ ExtractToken
    \/ FetchFails
    \/ FetchReturns
    \/ ScanComment
    \/ ReturnComments
    \/ ReturnVideo

SpecVideo == InitVideo /\ [][NextVideo]_vars

\* _extract_description_links alone
ExtractLinks ==
    /\ mode = "links"
    /\ UNCHANGED <<cliVars, other>>
    /\ pc = "_extract_description_links"
    /\ fields' = [description_links |-> JList(_extract_description_links(yt_initial_data))]
    /\ pc' = "done"
    /\ UNCHANGED <<redditVars, videoVars, mode, url, stderr, raised, idx, comments>>

NextLinks == ExtractLinks

SpecLinks == InitLinks /\ [][NextLinks]_vars

----------------------------------------------------------------------------
(* Two extraction calls of one process *)

\* the private state of the running call: the attributes of its parser
\* instance and the locals of its methods
Private ==
    [mode |-> mode,
     pc |-> pc,
     url |-> url,
     fields |-> fields,
     raised |-> raised,
     idx |-> idx,
     comments |-> comments,
     soup |-> soup,
     soup_select |-> soup_select,
     comment_elements |-> comment_elements,
     thread |-> thread,
     field |-> field,
     resolved |-> resolved,
     yt_initial_data |-> yt_initial_data,
     scraper |-> scraper,
     include_comments |-> include_comments,
     comment_char_limit |-> comment_char_limit,
     ret |-> ret,
     video |-> video,
     api_calls |-> api_calls,
     continuation_token |-> continuation_token,
     comments_data |-> comments_data,
     comment_threads |-> comment_threads,
     total_chars |-> total_chars,
     truncated |-> truncated]

\* a RedditParser call that has not started, as the private state of a call
ThreadCall(inp, sel) ==
    [mode |-> "thread", pc |-> "parse_thread", url |-> inp.url, fields |-> PyNone,
     raised |-> PyNone, idx |-> 0, comments |-> <<>>, soup |-> inp.soup,
     soup_select |-> sel, comment_elements |-> <<>>, thread |-> PyNone,
     field |-> "none", resolved |-> PyNone, yt_initial_data |-> PyNone,
     scraper |-> FALSE, include_comments |-> FALSE, comment_char_limit |-> 0,
     ret |-> NoRet, video |-> PyNone, api_calls |-> 0, continuation_token |-> PyNone,
     comments_data |-> PyNone, comment_threads |-> <<>>, total_chars |-> 0,
     truncated |-> FALSE]

\* the calls the second extraction is drawn from
OtherCalls ==
    {ThreadCall([soup |-> OldRedditTree, url |-> ThreadUrl],
                [NoContainers EXCEPT ![comment_selectors[1]] = <<c>>]) :
        c \in {Container({"comment"}, OldComment, "none"),
               Container({"comment"}, OldComment, "timestamp")}}

\* two parsers constructed on their own documents, one call about to run and
\* the other waiting
InitPair ==
    /\ \/ ThreadStart(SampleSelections(1))
       \/ /\ VideoStart
          /\ yt_initial_data = Watch(<<Primary, Secondary, CommentsSection(Token)>>)
          /\ url = WatchUrl
          /\ scraper /\ include_comments
          /\ comment_char_limit = 1
    /\ other \in OtherCalls
    /\ NoCli

\* a suspended call whose list of comments is the one the running call
\* appends to
ResumedSharingComments(st) == [st EXCEPT !.comments = comments]
\* the state a suspended call resumes with: its own
Resumed(st) == st

\* the scheduler suspends the running call and resumes the other one; what
\* was printed stays printed
Switch ==
    /\ other # PyNone
    /\ other' = Private
    /\ LET st == Resumed(other)
       IN
           /\ mode' = st.mode
           /\ pc' = st.pc
           /\ url' = st.url
           /\ fields' = st.fields
           /\ raised' = st.raised
           /\ idx' = st.idx
           /\ comments' = st.comments
           /\ soup' = st.soup
           /\ soup_select' = st.soup_select
           /\ comment_elements' = st.comment_elements
           /\ thread' = st.thread
           /\ field' = st.field
           /\ resolved' = st.resolved
           /\ yt_initial_data' = st.yt_initial_data
           /\ scraper' = st.scraper
           /\ include_comments' = st.include_comments
           /\ comment_char_limit' = st.comment_char_limit
           /\ ret' = st.ret
           /\ video' = st.video
           /\ api_calls' = st.api_calls
           /\ continuation_token' = st.continuation_token
           /\ comments_data' = st.comments_data
           /\ comment_threads' = st.comment_threads
           /\ total_chars' = st.total_chars
           /\ truncated' = st.truncated
    /\ UNCHANGED <<stderr, cliVars>>

NextPair == NextThread \/ NextVideo \/ Switch

SpecPair == InitPair /\ [][NextPair]_vars

----------------------------------------------------------------------------
(* scrape_url *)

is_reddit_url(u) ==
    Contains(u, <<"r", "e", "d", "d", "i", "t", ".", "c", "o", "m">>)

\* the parser class scrape_url constructs for a URL
ParserFor(u) == IF is_reddit_url(u) THEN "RedditParser" ELSE "TrafilaturaParser"

\* the line an except clause of scrape_url prints
ErrorLine(e) ==
    CASE e = "RequestsError" -> "Network error"
      [] e = "KeyboardInterrupt" -> "Operation cancelled by user"
      [] OTHER -> "Error"

\* str.replace(old, new): every occurrence of old, left to right
RECURSIVE replace(_, _, _)
replace(s, old, new) ==
    IF Len(s) < Len(old) THEN s
    ELSE IF SubSeq(s, 1, Len(old)) = old
    THEN new \o replace(SubSeq(s, Len(old) + 1, Len(s)), old, new)
    ELSE <<Head(s)>> \o replace(Tail(s), old, new)

RedditCom == <<"r", "e", "d", "d", "i", "t", ".", "c", "o", "m">>
WwwRedditCom == <<"w", "w", "w", ".", "r", "e", "d", "d", "i", "t", ".", "c", "o", "m">>
OldRedditCom == <<"o", "l", "d", ".", "r", "e", "d", "d", "i", "t", ".", "c", "o", "m">>
SchemeRedditCom == <<":", "/", "/", "r", "e", "d", "d", "i", "t", ".", "c", "o", "m">>
SchemeOldRedditCom == <<":", "/", "/", "o", "l", "d", ".", "r", "e", "d", "d", "i", "t", ".", "c", "o", "m">>

\* the URL WAFBypassScraper.fetch sends its request to
RewrittenUrl(u) ==
    IF Contains(u, RedditCom) /\ ~Contains(u, OldRedditCom)
    THEN IF Contains(u, WwwRedditCom) THEN replace(u, WwwRedditCom, OldRedditCom)
         ELSE IF Contains(u, <<":", "/", "/">>) /\ ~Contains(u, <<"o", "l", "d", ".">>)
         THEN replace(u, SchemeRedditCom, SchemeOldRedditCom)
         ELSE u
    ELSE u

\* an except clause that returns instead of calling sys.exit
ExitStatusIgnored(e) == JNum(0)
\* the status an except clause of scrape_url exits with
ExitStatus(e) == IF e = "KeyboardInterrupt" THEN JNum(130) ELSE JNum(1)

\* an exception reaches the except clauses of scrape_url
Exits(e) ==
    /\ raised' = Exc(e)
    /\ stderr' = Append(stderr, Warning(ErrorLine(e), 0))
    /\ exit_code' = ExitStatus(e)
    /\ pc' = "exited"

\* scraper.fetch_text(url) returns the document
FetchTextReturns ==
    /\ mode = "cli"
    /\ pc = "fetch_text"
    /\ requested' = RewrittenUrl(url)
    /\ html_content' \in Documents
    /\ pc' = "route"
    /\ UNCHANGED <<other, redditVars, videoVars, mode, url, stderr, fields, raised, idx, comments,
                   output_file, parser, cli_data, output, exit_code>>

\* scraper.fetch_text(url) raises (no connection, timeout, HTTP error
\* status), or the user interrupts the request
FetchTextRaises ==
    /\ mode = "cli"
    /\ pc = "fetch_text"
    /\ requested' = RewrittenUrl(url)
    /\ \E e \in {"RequestsError", "KeyboardInterrupt"} : Exits(e)
    /\ UNCHANGED <<other, redditVars, videoVars, mode, url, fields, idx, comments,
                   html_content, output_file, parser, cli_data, output>>

\* the choice of the parser and its call
Route ==
    /\ mode = "cli"
    /\ pc = "route"
    /\ parser' = ParserFor(url)
    /\ cli_data' = [record |-> IF ParserFor(url) = "RedditParser" THEN "RedditThread"
                           ELSE "TrafilaturaContent",
                source |-> html_content,
                url |-> url]
    /\ pc' = "format"
    /\ UNCHANGED <<other, redditVars, videoVars, mode, url, stderr, fields, raised, idx, comments,
                   html_content, output_file, output, exit_code, requested>>

\* the formatted record is printed or written, and scrape_url returns
FormatOutput ==
    /\ mode = "cli"
    /\ pc = "format"
    /\ output' = IF output_file THEN "file" ELSE "stdout"
    /\ exit_code' = JNum(0)
    /\ pc' = "exited"
    /\ UNCHANGED <<other, redditVars, videoVars, mode, url, stderr, fields, raised, idx, comments,
                   html_content, output_file, parser, cli_data, requested>>

\* Path(output_file).write_text raises
WriteFails ==
    /\ mode = "cli"
    /\ pc = "format"
    /\ output_file
    /\ Exits("OSError")
    /\ UNCHANGED <<other, redditVars, videoVars, mode, url, fields, idx, comments,
                   html_content, output_file, parser, cli_data, output, requested>>

NextCli ==
    \/ FetchTextReturns
    \/ FetchTextRaises
    \/ Route
    \/ FormatOutput
    \/ WriteFails

SpecCli == InitCli /\ [][NextCli]_vars

\* the calls that use the network: scrape_url with its document fetch and
\* parse_video with its comment-page fetch
SpecFetches == (InitCli \/ InitVideo) /\ [][NextCli \/ NextVideo]_vars

Init == InitVideo \/ InitThread \/ InitResolve \/ InitLinks \/ InitCli \/ InitPair

Next == NextVideo \/ NextThread \/ NextResolve \/ NextLinks \/ NextCli \/ Switch

Spec == Init /\ [][Next]_vars

----------------------------------------------------------------------------
(* The comment budget of a video record *)

\* the assembler was entered, a token was found and a page with a body came
\* back: the scan over the page's candidates took place
Assembled ==
    /\ include_comments /\ scraper
    /\ Truthy(continuation_token)
    /\ api_calls = 1 /\ Truthy(comments_data)

\* what each candidate of the page is to the scan: the length of its text
\* when it converts to a record, Dropped when it does not convert, Aborts
\* when it converts to a record whose text has no length
Dropped == 0 - 1
Aborts == 0 - 2
OutcomeOf(candidate) ==
    LET r == _parse_comment_thread(candidate)
    IN  IF r.comment = NoComment THEN Dropped
        ELSE IF r.comment.text.t # "str" THEN Aborts
        ELSE Len(r.comment.text.s)

RECURSIVE SumTo(_, _)
\* the cumulative text length of the records among the first k candidates
SumTo(candidates, k) ==
    IF k = 0 THEN 0
    ELSE SumTo(candidates, k - 1)
         + (IF OutcomeOf(candidates[k]) >= 0 THEN OutcomeOf(candidates[k]) ELSE 0)

\* the scan gets as far as candidate k
Consumes(candidates, k) == \A j \in 1..(k - 1) : OutcomeOf(candidates[j]) # Aborts

\* a record of the page takes the cumulative length over the limit while the
\* scan is still consuming the page
BudgetExceeded(candidates, limit) ==
    \E k \in 1..Len(candidates) :
        /\ OutcomeOf(candidates[k]) >= 0
        /\ Consumes(candidates, k)
        /\ SumTo(candidates, k) > limit

\* C1: on a returned video record comments_truncated is true exactly when
\* the scan of the fetched page met a record that took the cumulative text
\* length over comment_char_limit before the page was consumed; when the
\* assembler was skipped, found no token or got no page, comments_truncated
\* is false and comments is None
C1_TruncatedIffBudgetExceeded ==
    (mode = "video" /\ pc = "done") =>
        /\ video.comments_truncated =
               (Assembled /\ BudgetExceeded(comment_threads, comment_char_limit))
        /\ ~Assembled => (video.comments = PyNone /\ video.comments_truncated = FALSE)

\* a record returned with some comments and the truncated flag set
C1_Witness ==
    /\ mode = "video" /\ pc = "done"
    /\ video.comments_truncated = TRUE
    /\ video.comments # PyNone
    /\ Len(comment_threads) > Len(video.comments.l)

\* the records of the page whose text has a length, in candidate order
RECURSIVE ConvertibleComments(_)
ConvertibleComments(candidates) ==
    IF candidates = <<>> THEN <<>>
    ELSE LET rest == ConvertibleComments(Tail(candidates))
         IN  IF OutcomeOf(Head(candidates)) >= 0
             THEN <<_parse_comment_thread(Head(candidates)).comment>> \o rest
             ELSE rest

RECURSIVE TextLength(_)
\* the cumulative text length of a sequence of records
TextLength(records) ==
    IF records = <<>> THEN 0
    ELSE Len(Head(records).text.s) + TextLength(Tail(records))

\* the longest prefix of the records whose cumulative text length is within
\* the limit
LongestPrefixWithin(records, limit) ==
    LET fits == {k \in 0..Len(records) : TextLength(SubSeq(records, 1, k)) <= limit}
        k == CHOOSE k \in fits : \A j \in fits : j <= k
    IN  SubSeq(records, 1, k)

\* the comments of a returned record as a sequence, None being no comments
Included(v) == IF v = PyNone THEN <<>> ELSE v.l

\* C2: when the scan took place, the comments of the returned record are
\* exactly the longest prefix of the page's convertible comments, in
\* candidate order, whose cumulative text length is at most
\* comment_char_limit
C2_LongestPrefix ==
    (mode = "video" /\ pc = "done" /\ Assembled) =>
        Included(video.comments) =
            LongestPrefixWithin(ConvertibleComments(comment_threads), comment_char_limit)

----------------------------------------------------------------------------
(* The terminal outcomes of the comment assembler *)

\* the members of a list, none for any other value
Members(v) == IF v.t = "list" THEN {v.l[i] : i \in DOMAIN v.l} ELSE {}

\* the value under a key of an object, None when there is none
Under(v, k) == IF v.t = "obj" /\ k \in DOMAIN v.o THEN v.o[k] ELSE PyNone

RECURSIVE Path(_, _)
\* the value reached from v through a sequence of keys
Path(v, keys) == IF keys = <<>> THEN v ELSE Path(Under(v, Head(keys)), Tail(keys))

\* the graph holds a continuation token where the comments section keeps it:
\* a non-empty token of a continuationItemRenderer among the contents of an
\* itemSectionRenderer of the watch page's results
HoldsToken(graph) ==
    \E item \in Members(Path(graph, <<"contents", "twoColumnWatchNextResults",
                                      "results", "results", "contents">>)) :
        \E content \in Members(Path(item, <<"itemSectionRenderer", "contents">>)) :
            Truthy(Path(content, <<"continuationItemRenderer", "continuationEndpoint",
                                   "continuationCommand", "token">>))

\* C3: when comments are asked for and the graph holds no continuation
\* token, the assembler never reaches the fetch: no network call is made, a
\* warning is printed, the outcome is (None, False), and the video record is
\* still returned with its other fields
C3_NoTokenTerminal ==
    (mode = "video" /\ include_comments /\ scraper /\ ~HoldsToken(yt_initial_data)) =>
        /\ pc \notin {"fetch", "scan"}
        /\ api_calls = 0
        /\ pc \in {"return", "done"} =>
               /\ stderr = <<Warning("no_token", 0)>>
               /\ ret = NoRet
               /\ raised = PyNone
        /\ pc = "done" =>
               /\ video.comments = PyNone
               /\ video.comments_truncated = FALSE
               /\ \A f \in DOMAIN fields : video[f] = fields[f]

\* a video record returned after the assembler found no token
C3_Witness ==
    /\ mode = "video" /\ pc = "done"
    /\ include_comments /\ scraper /\ ~HoldsToken(yt_initial_data)
    /\ video # PyNone
    /\ stderr = <<Warning("no_token", 0)>>

\* the one comment-page request was made and failed
FetchFailed == mode = "video" /\ api_calls >= 1 /\ comments_data = PyNone

\* C4: a failed comment-page request ends the assembler without failing
\* parse_video: a warning is printed, the outcome is (None, False), no second
\* request follows, and the video record is returned with the fields that
\* were extracted before the request
C4_FetchFailedTerminal ==
    FetchFailed =>
        /\ api_calls = 1
        /\ pc \in {"return", "done"}
        /\ raised = PyNone
        /\ stderr = <<Warning("api_failed", 0)>>
        /\ ret = NoRet
        /\ pc = "return" => ENABLED ReturnVideo
        /\ pc = "done" =>
               /\ video.comments = PyNone
               /\ video.comments_truncated = FALSE
               /\ \A f \in DOMAIN fields : video[f] = fields[f]

\* a video record returned after the request failed
C4_Witness ==
    /\ FetchFailed /\ pc = "done"
    /\ video # PyNone
    /\ video.title = fields.title
    /\ stderr = <<Warning("api_failed", 0)>>

\* C5: the assembler is entered only when the caller asked for comments and
\* a scraper is there, and one parse_video makes at most one comment-page
\* request: none when include_comments is false, and none after the one
\* page has been fetched
C5_AtMostOnePage ==
    mode = "video" =>
        /\ api_calls <= 1
        /\ ~(include_comments /\ scraper) =>
               /\ pc \notin {"_extract_comments", "fetch", "scan"}
               /\ api_calls = 0
               /\ stderr \in InitialDataWarnings(yt_initial_data)
        /\ (pc \in {"scan", "return", "done"} /\ api_calls = 1) => ~ENABLED FetchReturns
        /\ (pc \in {"scan", "return", "done"} /\ api_calls = 1) => ~ENABLED FetchFails

\* a record returned without comments being asked for, and no request made
C5_Witness ==
    /\ mode = "video" /\ pc = "done"
    /\ ~include_comments /\ scraper
    /\ HoldsToken(yt_initial_data)
    /\ api_calls = 0
    /\ video.comments = PyNone

----------------------------------------------------------------------------
(* The comments of a thread record *)

\* C6: no comment of a returned record has an empty primary text: the text
\* of a thread comment is a string that is not empty and not only
\* whitespace, the text of a video comment is not empty
C6_NoEmptyText ==
    /\ (mode = "thread" /\ pc = "done") =>
           \A i \in DOMAIN thread.comments :
               /\ thread.comments[i].text.t = "str"
               /\ Strip(thread.comments[i].text.s) # <<>>
    /\ (mode = "video" /\ pc = "done" /\ video.comments # PyNone) =>
           \A i \in DOMAIN video.comments.l :
               /\ video.comments.l[i].text # PyNone
               /\ video.comments.l[i].text # JStr(<<>>)

\* a thread record returned with a comment, one of the iterated containers
\* having a text element with nothing in it
C6_Witness ==
    /\ mode = "thread" /\ pc = "done"
    /\ Len(thread.comments) >= 1
    /\ \E i \in DOMAIN comment_elements :
           /\ comment_elements[i].fault = "none"
           /\ _extract_comment_text(comment_elements[i].tree) = JStr(<<>>)

\* the text locators give the container a text that is not empty and not
\* only whitespace
HasUsableText(elem) ==
    LET text == _extract_comment_text(elem.tree)
    IN  text.t = "str" /\ Strip(text.s) # <<>>

\* an extraction step raises while the container is processed: the author
\* and text steps always run, the score and timestamp steps only for a
\* container with a usable text
RaisesAt(elem) ==
    \/ elem.fault \in {"author", "text"}
    \/ elem.fault \in {"score", "timestamp"} /\ HasUsableText(elem)

\* C7: an exception raised while the k-th container (counting from 1) is
\* processed is caught: one warning naming k is printed, the container gives
\* no comment, every other container is still processed, and the thread
\* record is returned
C7_FailureIsolated ==
    /\ mode = "thread" => raised = PyNone
    /\ (mode = "thread" /\ pc = "done") =>
           /\ thread # PyNone
           /\ \A k \in 1..Len(comment_elements) :
                  RaisesAt(comment_elements[k]) <=>
                      (\E i \in DOMAIN stderr : stderr[i] = Warning("parse_comment", k))
           /\ Len(stderr) =
                  Cardinality({k \in 1..Len(comment_elements) : RaisesAt(comment_elements[k])})
           /\ Len(thread.comments) =
                  Cardinality({k \in 1..Len(comment_elements) :
                                  HasUsableText(comment_elements[k])
                                  /\ ~RaisesAt(comment_elements[k])})

\* a thread record returned with a comment from a container that follows one
\* whose processing raised
C7_Witness ==
    /\ mode = "thread" /\ pc = "done"
    /\ Len(comment_elements) >= 2
    /\ RaisesAt(comment_elements[1])
    /\ ~RaisesAt(comment_elements[Len(comment_elements)])
    /\ stderr = <<Warning("parse_comment", 1)>>
    /\ Len(thread.comments) >= 1

RECURSIVE CommentsOf(_)
\* the comments of the containers with a usable text whose processing does
\* not raise, in the order of the containers
CommentsOf(elems) ==
    IF elems = <<>> THEN <<>>
    ELSE LET elem == Head(elems)
             rest == CommentsOf(Tail(elems))
         IN  IF HasUsableText(elem) /\ ~RaisesAt(elem)
             THEN <<RedditComment(_extract_comment_author(elem.tree),
                                  _extract_comment_text(elem.tree),
                                  _extract_comment_score(elem.tree),
                                  _extract_comment_timestamp(elem.tree))>> \o rest
             ELSE rest

\* C8: the comments of the thread record are exactly the comments of the
\* selected containers that gave a usable text (and whose processing did not
\* raise), in document order, and a container dropped for an empty text
\* leaves no warning
C8_UsableInDocumentOrder ==
    (mode = "thread" /\ pc = "done") =>
        /\ thread.comments = CommentsOf(comment_elements)
        /\ \A k \in 1..Len(comment_elements) :
               (~HasUsableText(comment_elements[k]) /\ ~RaisesAt(comment_elements[k])) =>
                   \A i \in DOMAIN stderr : stderr[i].idx # k

\* three containers, the second without usable text: two comments in the
\* order of the containers and no warning
C8_Witness ==
    /\ mode = "thread" /\ pc = "done"
    /\ Len(comment_elements) = 3
    /\ HasUsableText(comment_elements[1])
    /\ ~HasUsableText(comment_elements[2])
    /\ HasUsableText(comment_elements[3])
    /\ Len(thread.comments) = 2
    /\ thread.comments[1].text # thread.comments[2].text
    /\ stderr = <<>>

----------------------------------------------------------------------------
(* The field resolvers *)

\* the i-th locator of the resolved field matches in the tree
MatchesAt(i) == soup[FieldSelectors(field)[i]] # NoElem

\* the m-th locator is the highest-priority one that matches
IsLowest(m) == MatchesAt(m) /\ \A j \in 1..(m - 1) : ~MatchesAt(j)

\* the tree with nothing but what the i-th locator of the field matches
OnlyAt(i) ==
    [sel \in Selectors |-> IF sel = FieldSelectors(field)[i] THEN soup[sel] ELSE NoElem]

\* C9: every field resolver takes its value from the first locator of its
\* list that matches: the value is the one the resolver gives when that
\* locator alone matches, whatever the later locators and the fallback match
C9_FirstMatchWins ==
    (mode = "resolve" /\ pc = "done") =>
        \A m \in 1..Len(FieldSelectors(field)) :
            IsLowest(m) => resolved = Resolver(field, OnlyAt(m))

\* two locators of the field match, each alone would give another value, and
\* the value is that of the earlier one
C9_Witness ==
    /\ mode = "resolve" /\ pc = "done"
    /\ \E m, n \in 1..Len(FieldSelectors(field)) :
           /\ m < n /\ IsLowest(m) /\ MatchesAt(n)
           /\ Resolver(field, OnlyAt(m)) # Resolver(field, OnlyAt(n))
           /\ resolved = Resolver(field, OnlyAt(m))

\* the value the i-th locator alone gives is a non-empty one
YieldsValue(i) == MatchesAt(i) /\ Truthy(Resolver(field, OnlyAt(i)))

\* the element has no text and, for a timestamp, no title attribute either
Empty(elem) ==
    /\ get_text(elem, <<>>) = JStr(<<>>)
    /\ field = "comment_timestamp" => ~Truthy(elem.title)

\* C10 as stated: a resolver returns the first non-empty match, so that a
\* field is never the empty string while some locator of its list yields a
\* non-empty value
C10_FirstNonEmptyWins ==
    (mode = "resolve" /\ pc = "done") =>
        \A i \in 1..Len(FieldSelectors(field)) :
            (YieldsValue(i) /\ \A j \in 1..(i - 1) : ~YieldsValue(j)) =>
                resolved = Resolver(field, OnlyAt(i))

\* C10 amended: a resolver returns the text of the first locator that
\* matches, empty or not: when that element has no text the field is the
\* empty string even if a later locator yields a non-empty value, and a
\* field is the empty string only when the first locator that matches (or,
\* no locator of the list matching, the fallback) yields it
C10_FirstMatchEvenIfEmpty ==
    (mode = "resolve" /\ pc = "done") =>
        /\ \A m \in 1..Len(FieldSelectors(field)) :
               (IsLowest(m) /\ Empty(soup[FieldSelectors(field)[m]])) =>
                   resolved = JStr(<<>>)
        /\ resolved = JStr(<<>>) =>
               \/ \E m \in 1..Len(FieldSelectors(field)) :
                      IsLowest(m) /\ Resolver(field, OnlyAt(m)) = JStr(<<>>)
               \/ /\ \A m \in 1..Len(FieldSelectors(field)) : ~MatchesAt(m)
                  /\ \E sel \in FallbackSelectors(field) : soup[sel] # NoElem

\* the first matching locator gives an element without text, a later one
\* yields a value, and the field is the empty string
C10_Witness ==
    /\ mode = "resolve" /\ pc = "done"
    /\ \E m, n \in 1..Len(FieldSelectors(field)) :
           /\ m < n /\ IsLowest(m) /\ Empty(soup[FieldSelectors(field)[m]])
           /\ YieldsValue(n)
    /\ resolved = JStr(<<>>)

----------------------------------------------------------------------------
(* Defaults and fatal errors *)

\* no locator of the field, fallback included, matches in the document
NoneMatch(f) ==
    \A sel \in Range(FieldSelectors(f)) \cup FallbackSelectors(f) : soup[sel] = NoElem

\* no comment locator yields an element
NoneSelected == \A sel \in Range(comment_selectors) : soup_select[sel] = <<>>

\* C11: a field none of whose locators matches resolves to None or to its
\* default and parse_thread never raises: on a document in which nothing
\* matches the record has title "Unknown Title", author "Unknown", score
\* None, text None and no comments
C11_NoMatchGivesDefaults ==
    /\ mode = "thread" => pc # "raised" /\ raised = PyNone
    /\ (mode = "thread" /\ pc = "done") =>
           /\ NoneMatch("title") =>
                  thread.title = JStr(<<"U", "n", "k", "n", "o", "w", "n", " ",
                                        "T", "i", "t", "l", "e">>)
           /\ NoneMatch("author") =>
                  thread.author = JStr(<<"U", "n", "k", "n", "o", "w", "n">>)
           /\ NoneMatch("score") => thread.score = PyNone
           /\ NoneMatch("post_text") => thread.text = PyNone
           /\ NoneSelected => (thread.comments = <<>> /\ stderr = <<>>)

\* the record of a document in which no locator matches at all
C11_Witness ==
    /\ mode = "thread" /\ pc = "done"
    /\ \A f \in {"title", "author", "score", "post_text"} : NoneMatch(f)
    /\ NoneSelected
    /\ thread.title = JStr(<<"U", "n", "k", "n", "o", "w", "n", " ", "T", "i", "t", "l", "e">>)
    /\ thread.comments = <<>>

\* a video id can be derived from the URL
Derivable(u) == ~IsExc(_extract_video_id(u))

\* C12: the video id is the only fatal field: on a decoded graph
\* parse_video raises exactly when no id can be derived from the URL, and
\* then returns no record; a missing or unreadable value of any other field
\* leaves the record to be returned
C12_OnlyVideoIdFatal ==
    (mode = "video" /\ Truthy(yt_initial_data)) =>
        /\ pc = "raised" => ~Derivable(url)
        /\ ~Derivable(url) => (pc \in {"parse_video", "raised"} /\ video = PyNone)

C14_SafeWalks ==
    (mode = "video" /\ Truthy(yt_initial_data) /\ pc # "parse_video") =>
        /\ ~IsExc(_get_video_details(yt_initial_data))
        /\ ~IsExc(_extract_title(_get_video_details(yt_initial_data)))
        /\ ~IsExc(_extract_channel_name(yt_initial_data))
        /\ ~IsExc(_extract_like_count(yt_initial_data))
        /\ ~IsExc(_extract_view_count(_get_video_details(yt_initial_data)))
        /\ ~IsExc(_extract_upload_date(_get_video_details(yt_initial_data)))
        /\ ~IsExc(_extract_description(yt_initial_data))
        /\ ~IsExc(_extract_continuation_token(yt_initial_data))

----------------------------------------------------------------------------
(* The sections and the description links of a video record *)

\* the sections of the watch page
Sections(graph) ==
    Members(Path(graph, <<"contents", "twoColumnWatchNextResults", "results",
                          "results", "contents">>))

\* the sections tagged as the secondary info section
SecondarySections(graph) ==
    {item \in Sections(graph) :
        item.t = "obj" /\ "videoSecondaryInfoRenderer" \in DOMAIN item.o}

\* the three lookups taken alone: on a graph whose section list has no
\* secondary info section the channel name is "Unknown Channel", the
\* description "" and the list of links empty, and none of the three raises;
\* a secondary info section is found wherever it stands in the list
SecondaryLookupsDegrade ==
    (mode = "video" /\ Truthy(yt_initial_data)) =>
        /\ SecondarySections(yt_initial_data) = {} =>
               /\ _extract_channel_name(yt_initial_data) = UnknownChannel
               /\ _extract_description(yt_initial_data) = JStr(<<>>)
               /\ _extract_description_links(yt_initial_data) = <<>>
               /\ pc = "done" =>
                      /\ video.channel_name = UnknownChannel
                      /\ video.description = JStr(<<>>)
                      /\ video.description_links = JList(<<>>)
        /\ \A sec \in SecondarySections(yt_initial_data) :
               fields # PyNone =>
                   /\ fields.channel_name =
                          Under(Path(sec, <<"videoSecondaryInfoRenderer", "owner",
                                            "videoOwnerRenderer", "title", "runs">>).l[1],
                                "text")
                   /\ fields.description =
                          Path(sec, <<"videoSecondaryInfoRenderer",
                                      "attributedDescription", "content">>)

\* C15: on a decoded graph whose section list has no secondary info section,
\* parse_video on a URL with a derivable id does not raise and returns a
\* record with channel name "Unknown Channel", description "" and no links
C15_NoSecondaryReturns ==
    (/\ mode = "video" /\ Truthy(yt_initial_data) /\ Derivable(url)
     /\ SecondarySections(yt_initial_data) = {} /\ pc # "parse_video") =>
        /\ pc # "raised"
        /\ video # PyNone =>
               /\ video.channel_name = UnknownChannel
               /\ video.description = JStr(<<>>)
               /\ video.description_links = JList(<<>>)

\* the command runs and the text of the description of a graph
RunsOf(graph) ==
    LET sec == CHOOSE x \in SecondarySections(graph) : TRUE
    IN  Path(sec, <<"videoSecondaryInfoRenderer", "attributedDescription", "commandRuns">>).l

ContentOf(graph) ==
    LET sec == CHOOSE x \in SecondarySections(graph) : TRUE
    IN  Path(sec, <<"videoSecondaryInfoRenderer", "attributedDescription", "content">>).s

TargetOf(run) == Path(run, <<"onTap", "innertubeCommand", "urlEndpoint", "url">>)

\* the run has a target to emit a link for
Emits(run) == TargetOf(run).t = "str" /\ TargetOf(run).s # <<>>

Emitting(runs, k) == {j \in 1..k : Emits(runs[j])}

\* sub occurs in s
Occurs(sub, s) ==
    \E p \in 1..(Len(s) - Len(sub) + 1) : SubSeq(s, p, p + Len(sub) - 1) = sub

HasRedirectMarker(s) ==
    \/ Occurs(<<"/", "r", "e", "d", "i", "r", "e", "c", "t", "?">>, s)
    \/ Occurs(<<"y", "o", "u", "t", "u", "b", "e", ".", "c", "o", "m", "/", "r", "e", "d", "i", "r", "e", "c", "t">>, s)

\* where the values of the q parameters of a URL start
QStarts(s) ==
    {p \in 4..Len(s) : s[p - 3] \in {"?", "&"} /\ s[p - 2] = "q" /\ s[p - 1] = "="
                       /\ s[p] # "&"}

\* the value of the first q parameter: up to the next "&" or the end
QValue(s) ==
    LET a == CHOOSE p \in QStarts(s) : \A q \in QStarts(s) : p <= q
        b == CHOOSE e \in a..Len(s) :
                 /\ \A k \in a..e : s[k] # "&"
                 /\ e = Len(s) \/ s[e + 1] = "&"
    IN  SubSeq(s, a, b)

\* the percent-encoding of a string: ":", "/" and "%" escaped
RECURSIVE quote(_)
quote(s) ==
    IF s = <<>> THEN <<>>
    ELSE (CASE s[1] = ":" -> <<"%", "3", "A">>
            [] s[1] = "/" -> <<"%", "2", "F">>
            [] s[1] = "%" -> <<"%", "2", "5">>
            [] OTHER -> <<s[1]>>) \o quote(Tail(s))

\* the characters of the description the run spans
Span(content, run) ==
    LET a == Under(run, "startIndex").n
        n == Under(run, "length").n
    IN  [k \in 1..Cardinality({i \in (a + 1)..(a + n) : i <= Len(content)}) |->
            content[a + k]]

\* every run with a target got its link, in the order of the runs
AllEmitted ==
    /\ mode = "links" /\ pc = "done"
    /\ Len(fields.description_links.l) =
           Cardinality(Emitting(RunsOf(yt_initial_data), Len(RunsOf(yt_initial_data))))

\* the link emitted for run k
LinkOf(k) ==
    fields.description_links.l[Cardinality(Emitting(RunsOf(yt_initial_data), k))]

\* the runs that point at a redirect URL with a q parameter
RedirectRuns ==
    {k \in 1..Len(RunsOf(yt_initial_data)) :
        /\ Emits(RunsOf(yt_initial_data)[k])
        /\ HasRedirectMarker(TargetOf(RunsOf(yt_initial_data)[k]).s)
        /\ QStarts(TargetOf(RunsOf(yt_initial_data)[k]).s) # {}}

\* C16 as stated: the link of a redirect run has the percent-decoded q value
\* as its URL and the slice of the description text at the run's offset and
\* length as its text
C16_TextIsSlice ==
    AllEmitted =>
        \A k \in RedirectRuns :
            /\ quote(LinkOf(k).url.s) = QValue(TargetOf(RunsOf(yt_initial_data)[k]).s)
            /\ LinkOf(k).text = JStr(Span(ContentOf(yt_initial_data),
                                          RunsOf(yt_initial_data)[k]))

\* C16: the link of a redirect run has the percent-decoded q value as its
\* URL; its text is the slice of the description text at the run's offset
\* and length when that slice is not empty, and the resolved URL otherwise
C16_RedirectUnwrapped ==
    AllEmitted =>
        \A k \in RedirectRuns :
            LET run == RunsOf(yt_initial_data)[k]
                span == Span(ContentOf(yt_initial_data), run)
            IN  /\ quote(LinkOf(k).url.s) = QValue(TargetOf(run).s)
                /\ LinkOf(k).text = IF span # <<>> THEN JStr(span) ELSE LinkOf(k).url

\* two redirect runs were unwrapped, one with its slice as text and one with
\* an empty slice
C16_Witness ==
    /\ AllEmitted
    /\ \E k \in RedirectRuns : LinkOf(k).text = JStr(<<"x">>)
    /\ \E k \in RedirectRuns :
           /\ Span(ContentOf(yt_initial_data), RunsOf(yt_initial_data)[k]) = <<>>
           /\ LinkOf(k).text = LinkOf(k).url
           /\ LinkOf(k).url = JStr(<<"h", "t", "t", "p", "s", ":", "/", "/", "x", ".", "y">>)

\* C17: every emitted link has a non-empty URL that is not a site-relative
\* path, and a run whose URL is empty emits no link
C17_NoRelativeUrl ==
    AllEmitted =>
        \A i \in 1..Len(fields.description_links.l) :
            /\ fields.description_links.l[i].url.s # <<>>
            /\ fields.description_links.l[i].url.s[1] # "/"

----------------------------------------------------------------------------
(* Routing and transport failures *)

\* the site markers of a URL
HasThreadMarker(u) == Occurs(<<"r", "e", "d", "d", "i", "t", ".", "c", "o", "m">>, u)
HasVideoMarker(u) ==
    \/ Occurs(<<"y", "o", "u", "t", "u", "b", "e", ".", "c", "o", "m">>, u)
    \/ Occurs(<<"y", "o", "u", "t", "u", ".", "b", "e">>, u)

\* C18: routing is a three-way decision on the URL alone: a URL with the
\* thread-site marker goes to the thread extractor, a URL with the video-site
\* marker to the video extractor, any other URL to the generic extractor,
\* whatever document was fetched
C18_ThreeWayRouting ==
    (mode = "cli" /\ parser # "none") =>
        parser = IF HasThreadMarker(url) THEN "RedditParser"
                 ELSE IF HasVideoMarker(url) THEN "YouTubeParser"
                 ELSE "TrafilaturaParser"

\* the fetch of the document raised a transport error
PrimaryFetchFailed == mode = "cli" /\ raised = Exc("RequestsError")

\* the primary half of C19: a transport error of the document fetch ends the
\* process with status 1 and one "Network error" line, before any parser is
\* constructed and without a record or output
PrimaryFetchFatal ==
    PrimaryFetchFailed =>
        /\ pc = "exited"
        /\ exit_code = JNum(1)
        /\ stderr = <<Warning("Network error", 0)>>
        /\ parser = "none"
        /\ cli_data = PyNone
        /\ output = "none"

\* C19 as stated: a transport error of any network call, the document fetch
\* or the comment-page fetch, is caught by no extractor and ends the run
\* without a record
C19_TransportAlwaysFatal ==
    /\ PrimaryFetchFatal
    /\ FetchFailed => (pc # "done" /\ video = PyNone)

\* C19: a transport error of the document fetch is fatal to the invocation;
\* a transport error of the comment-page fetch is caught inside
\* _fetch_comments_api, and parse_video goes on to return the record without
\* comments
C19_PrimaryFatalCommentsCaught ==
    /\ PrimaryFetchFatal
    /\ FetchFailed =>
           /\ raised = PyNone
           /\ pc \in {"return", "done"}
           /\ pc = "done" => (video # PyNone /\ video.comments = PyNone)

\* the process ended on a transport error of the document fetch
C19_Witness ==
    /\ PrimaryFetchFailed
    /\ pc = "exited"
    /\ exit_code = JNum(1)
    /\ html_content = PyNone

----------------------------------------------------------------------------
(* Failure isolation among the comments of a fetched page *)

\* C20: a comment entity that fails to convert, a text that is not a string
\* included, is excluded alone: every entity of the page that converts and
\* fits the budget with the convertible entities before it is among the
\* comments of the returned record
C20_SiblingsSurvive ==
    (mode = "video" /\ pc = "done" /\ Assembled) =>
        \A k \in 1..Len(comment_threads) :
            (/\ OutcomeOf(comment_threads[k]) >= 0
             /\ SumTo(comment_threads, k) <= comment_char_limit) =>
                \E i \in 1..Len(Included(video.comments)) :
                    Included(video.comments)[i] = _parse_comment_thread(comment_threads[k]).comment

----------------------------------------------------------------------------
(* Extraction calls running side by side *)

\* the thread record a RedditParser call with private state st returns when
\* nothing else runs
ThreadAlone(st) ==
    [title |-> Reddit_extract_title(st.soup),
     author |-> Reddit_extract_author(st.soup),
     subreddit |-> _extract_subreddit(st.url),
     score |-> Reddit_extract_score(st.soup),
     text |-> _extract_post_text(st.soup),
     url |-> st.url,
     comments |-> CommentsOf(SelectComments(st.soup_select))]

RECURSIVE ScanAlone(_, _, _, _, _)
\* (comments, comments_truncated) of the scan of a page's candidates from
\* candidate i on, acc being the records included and total their length
ScanAlone(candidates, i, acc, total, limit) ==
    LET result(flag) == [comments |-> IF acc # <<>> THEN JList(acc) ELSE PyNone,
                         truncated |-> flag]
    IN  IF i > Len(candidates) THEN result(FALSE)
        ELSE IF OutcomeOf(candidates[i]) = Dropped
        THEN ScanAlone(candidates, i + 1, acc, total, limit)
        ELSE IF OutcomeOf(candidates[i]) = Aborts THEN NoRet
        ELSE IF total + OutcomeOf(candidates[i]) > limit THEN result(TRUE)
        ELSE ScanAlone(candidates, i + 1,
                       Append(acc, _parse_comment_thread(candidates[i]).comment),
                       total + OutcomeOf(candidates[i]), limit)

\* the video record a YouTubeParser call with private state st returns when
\* nothing else runs, st.comments_data being what the API answered
VideoAlone(st) ==
    LET details == _get_video_details(st.yt_initial_data)
        ret_alone ==
            IF ~(st.include_comments /\ st.scraper) THEN NoRet
            ELSE IF ~Truthy(_extract_continuation_token(st.yt_initial_data)) THEN NoRet
            ELSE IF ~Truthy(st.comments_data) THEN NoRet
            ELSE ScanAlone(_extract_comment_threads(st.comments_data), 1, <<>>, 0,
                           st.comment_char_limit)
    IN  [title |-> _extract_title(details),
         channel_name |-> _extract_channel_name(st.yt_initial_data),
         description |-> _extract_description(st.yt_initial_data),
         description_links |-> JList(_extract_description_links(st.yt_initial_data)),
         view_count |-> _extract_view_count(details),
         upload_date |-> _extract_upload_date(details),
         like_count |-> _extract_like_count(st.yt_initial_data),
         video_id |-> _extract_video_id(st.url),
         url |-> st.url,
         comments |-> ret_alone.comments,
         comments_truncated |-> ret_alone.truncated]

\* a call that has returned returned the record it returns alone
ReturnsAsAlone(st) ==
    /\ (st.mode = "thread" /\ st.pc = "done") => st.thread = ThreadAlone(st)
    /\ (st.mode = "video" /\ st.pc = "done") => st.video = VideoAlone(st)

\* C22: of two extraction calls on separate parser instances whose steps
\* interleave in any order, each returns the record it returns when it runs
\* alone, and no call raises that does not raise alone
C22_InterleavingSafe ==
    /\ mode \in {"thread", "video"} => ReturnsAsAlone(Private)
    /\ other # PyNone =>
           /\ ReturnsAsAlone(other)
           /\ raised = PyNone /\ other.raised = PyNone

\* both calls have returned a record with a comment, after the running call
\* was suspended in the middle of its loop over the comments
C22_Witness ==
    /\ other # PyNone
    /\ pc = "done" /\ other.pc = "done"
    /\ mode = "video" /\ other.mode = "thread"
    /\ video.comments # PyNone
    /\ Len(other.thread.comments) = 1
    /\ stderr # <<>>

----------------------------------------------------------------------------
(* The comment containers of a thread *)

\* a thread call has chosen its comment elements
ContainersChosen == mode = "thread" /\ pc \in {"comments", "done"}

\* the positions in comment_selectors of the locators that yield an element
Yielding == {i \in 1..Len(comment_selectors) : soup_select[comment_selectors[i]] # <<>>}

\* what the first locator that yields an element yields
FirstYield ==
    IF Yielding = {} THEN <<>>
    ELSE soup_select[comment_selectors[CHOOSE i \in Yielding : \A j \in Yielding : i <= j]]

\* the positions in FirstYield of the elements classed comment that carry no
\* entry marker
TopLevelAt ==
    {k \in 1..Len(FirstYield) :
        "comment" \in FirstYield[k].class /\ "entry" \notin FirstYield[k].class}

\* the n-th position of TopLevelAt
NthTopLevel(n) == CHOOSE k \in TopLevelAt : Cardinality({j \in TopLevelAt : j <= k}) = n

\* C23 as stated: when the first locator that yields an element yields one
\* classed comment, no element carrying the entry marker is among the comment
\* elements
C23_NestedAlwaysFiltered ==
    (/\ ContainersChosen
     /\ \E k \in 1..Len(FirstYield) : "comment" \in FirstYield[k].class) =>
        \A n \in 1..Len(comment_elements) : "entry" \notin comment_elements[n].class

\* C23: the comment elements come from the first locator that yields an
\* element; when it yields an element classed comment without the entry marker,
\* the comment elements are exactly its elements of that kind, each once and in
\* order, and otherwise they are all it yields
C23_NestedFilteredIfTopLevelLeft ==
    ContainersChosen =>
        IF TopLevelAt # {}
        THEN /\ Len(comment_elements) = Cardinality(TopLevelAt)
             /\ \A n \in 1..Len(comment_elements) :
                    comment_elements[n] = FirstYield[NthTopLevel(n)]
        ELSE comment_elements = FirstYield

\* the chosen locator yielded a top-level container and one carrying the entry
\* marker, and the latter was filtered out
C23_Witness ==
    /\ ContainersChosen
    /\ TopLevelAt # {}
    /\ \E k \in 1..Len(FirstYield) : "entry" \in FirstYield[k].class
    /\ Len(comment_elements) < Len(FirstYield)
    /\ Len(comment_elements) >= 2

----------------------------------------------------------------------------
(* The candidates decoded from a comment page *)

\* a video call has decoded the page the API answered with
PageDecoded == mode = "video" /\ pc = "scan"

HasKey(v, k) == v.t = "obj" /\ k \in DOMAIN v.o

\* the mutation list of the answered page, empty when the page holds no list
\* at frameworkUpdates.entityBatchUpdate.mutations
PageMutations ==
    IF /\ HasKey(comments_data, "frameworkUpdates")
       /\ HasKey(comments_data.o.frameworkUpdates, "entityBatchUpdate")
       /\ HasKey(comments_data.o.frameworkUpdates.o.entityBatchUpdate, "mutations")
       /\ comments_data.o.frameworkUpdates.o.entityBatchUpdate.o.mutations.t = "list"
    THEN comments_data.o.frameworkUpdates.o.entityBatchUpdate.o.mutations.l
    ELSE <<>>

\* the comment payload of a mutation, PyNone when it has none
CommentPayloadOf(m) ==
    IF HasKey(m, "payload") /\ HasKey(m.o.payload, "commentEntityPayload")
    THEN m.o.payload.o.commentEntityPayload
    ELSE PyNone

\* the commentId of a mutation, PyNone when it has no comment payload or the
\* payload no commentId
CommentIdOf(m) ==
    LET e == CommentPayloadOf(m)
    IN  IF /\ HasKey(e, "properties")
           /\ HasKey(e.o.properties, "commentId")
           /\ Truthy(e.o.properties.o.commentId)
        THEN e.o.properties.o.commentId
        ELSE PyNone

PageIds == {CommentIdOf(PageMutations[i]) : i \in 1..Len(PageMutations)} \ {PyNone}

Occurrences(id) == {i \in 1..Len(PageMutations) : CommentIdOf(PageMutations[i]) = id}

FirstOccurrence(id) == CHOOSE i \in Occurrences(id) : \A j \in Occurrences(id) : i <= j

LastOccurrence(id) == CHOOSE i \in Occurrences(id) : \A j \in Occurrences(id) : j <= i

\* the candidate built from the comment payload of a mutation
CandidateOf(m) ==
    LET e == CommentPayloadOf(m)
    IN  JObj([author |-> Get(e, "author", EmptyObj),
              properties |-> Get(e, "properties", EmptyObj),
              toolbar |-> Get(e, "toolbar", EmptyObj)])

\* one candidate for each commentId of the page, at the rank of the id's first
\* occurrence and with the data of its last one, and no other candidate
OneCandidatePerId ==
    /\ Len(comment_threads) = Cardinality(PageIds)
    /\ \A id \in PageIds :
           LET rank == Cardinality({j \in PageIds : FirstOccurrence(j) <= FirstOccurrence(id)})
           IN  comment_threads[rank] = CandidateOf(PageMutations[LastOccurrence(id)])

\* C24: the candidates decoded from a page are one per distinct commentId, in
\* the order of the first occurrences of the ids in the mutation list, each
\* with the data of the last mutation of its id; mutations without a comment
\* payload or without a commentId contribute none
C24_OneCandidatePerId == PageDecoded => OneCandidatePerId

\* no mutation of the page makes the decoding loop raise
DecodesCleanly ==
    \A i \in 1..Len(PageMutations) : MutationStep(<<>>, PageMutations[i]).exc = NotFound

\* on the pages whose mutations all decode without raising the candidates are
\* as C24 says
CleanPagesDecode == (PageDecoded /\ DecodesCleanly) => OneCandidatePerId

\* a page on which a later mutation replaced the data of an id seen before
SameIdReplaced ==
    /\ PageDecoded
    /\ \E id \in PageIds : FirstOccurrence(id) < LastOccurrence(id)
    /\ Len(comment_threads) = 2

----------------------------------------------------------------------------
(* Truncation of a record without comments *)

\* the first candidate of the page that converts to a record has a text
\* longer than the limit, and the scan gets as far as that candidate
FirstConvertibleOverBudget ==
    \E k \in 1..Len(comment_threads) :
        /\ OutcomeOf(comment_threads[k]) > comment_char_limit
        /\ \A j \in 1..(k - 1) : OutcomeOf(comment_threads[j]) = Dropped

\* C25 as stated: a returned video record without comments is not truncated
C25_NoCommentsNotTruncated ==
    (mode = "video" /\ pc = "done" /\ video.comments = PyNone) =>
        video.comments_truncated = FALSE

\* C25: a returned video record has no comments and is truncated exactly when
\* the scan took place and the first convertible comment of the page is longer
\* than the budget; every other record without comments is not truncated
C25_NoCommentsTruncatedIffFirstOverBudget ==
    (mode = "video" /\ pc = "done") =>
        (video.comments = PyNone /\ video.comments_truncated = TRUE)
            <=> (Assembled /\ FirstConvertibleOverBudget)

\* a record returned without comments and truncated, after a candidate that
\* does not convert was passed over
C25_Witness ==
    /\ mode = "video" /\ pc = "done"
    /\ video.comments = PyNone
    /\ video.comments_truncated = TRUE
    /\ idx >= 1
    /\ comment_char_limit >= 1

----------------------------------------------------------------------------
(* Candidates that do not convert, and the budget *)

\* the scan of the fetched page is under way or over
Scanning == mode = "video" /\ pc \in {"scan", "return", "done"} /\ Assembled

\* the running total is the cumulative text length of the comments included
TotalIsIncludedLength == Scanning => total_chars = TextLength(comments)

\* truncated is set only at a candidate that converts to a record whose text
\* takes the running total over the limit
TruncatedOnlyByRecord ==
    (Scanning /\ truncated) =>
        /\ idx < Len(comment_threads)
        /\ OutcomeOf(comment_threads[idx + 1]) >= 0
        /\ total_chars + OutcomeOf(comment_threads[idx + 1]) > comment_char_limit

\* every candidate passed over that gave no record left the comments and the
\* running total as they were: the records included are the candidates passed
\* over that convert
PassedOverUnchanged ==
    Scanning =>
        /\ Len(comments) = Cardinality({k \in 1..idx : OutcomeOf(comment_threads[k]) >= 0})
        /\ total_chars = SumTo(comment_threads, idx)

\* C26: a candidate that gives no record neither consumes budget nor stops
\* the scan: the running total is the text length of the comments included,
\* truncated is set only by a record over the budget, and the scan ends only
\* at the end of the page or at such a record
C26_UnconvertibleSkipped ==
    /\ TotalIsIncludedLength
    /\ TruncatedOnlyByRecord
    /\ PassedOverUnchanged
    /\ (Scanning /\ pc \in {"return", "done"}) =>
           truncated \/ idx = Len(comment_threads)

\* what holds of the scan: as C26, but for the candidates for which
\* _parse_comment_thread returns None; a record whose text has no length ends
\* the scan
NoneResultsSkipped ==
    /\ TotalIsIncludedLength
    /\ TruncatedOnlyByRecord
    /\ PassedOverUnchanged
    /\ (Scanning /\ pc \in {"return", "done"}) =>
           \/ truncated
           \/ idx = Len(comment_threads)
           \/ OutcomeOf(comment_threads[idx + 1]) = Aborts

\* a scan that passed over a candidate without record and then included one
SkippedThenIncluded ==
    /\ Scanning /\ pc = "done"
    /\ \E k \in 1..idx :
           /\ OutcomeOf(comment_threads[k]) = Dropped
           /\ \E j \in (k + 1)..idx : OutcomeOf(comment_threads[j]) >= 0

----------------------------------------------------------------------------
(* The network call comes after the extraction *)

MetadataFields ==
    {"video_id", "title", "channel_name", "description", "description_links",
     "view_count", "upload_date", "like_count"}

\* the blob was usable, the video id was derived and every metadata field has
\* its value
MetadataExtracted ==
    /\ Truthy(yt_initial_data)
    /\ fields # PyNone
    /\ DOMAIN fields = MetadataFields
    /\ fields.video_id.t = "str" /\ Len(fields.video_id.s) = IdLen
    /\ \A f \in MetadataFields : ~IsExc(fields[f])

\* C27: the comments API is called only after the blob was found usable, the
\* video id derived and the metadata fields extracted, and a parse_video call
\* that raises has called the API no time
C27_FetchAfterExtraction ==
    mode = "video" =>
        /\ (api_calls >= 1 \/ pc = "fetch") => MetadataExtracted
        /\ pc \in {"parse_video", "raised"} => api_calls = 0

\* a call asked for comments on a page that holds a continuation token raised
\* for want of a video id
C27_Witness ==
    /\ mode = "video" /\ pc = "raised"
    /\ raised = Exc("ValueError")
    /\ include_comments /\ scraper
    /\ HoldsToken(yt_initial_data)
    /\ api_calls = 0

----------------------------------------------------------------------------
(* The URL the request goes to *)

\* scrape_url has called fetch_text
Fetched == mode = "cli" /\ requested # PyNone

\* a URL on the www host or on the bare host is requested from old.reddit.com
FetchedFromOld(u) ==
    (/\ Contains(u, WwwRedditCom) \/ Contains(u, SchemeRedditCom)
     /\ ~Contains(u, OldRedditCom)) =>
        /\ Contains(requested, OldRedditCom)
        /\ ~Contains(requested, WwwRedditCom)
        /\ ~Contains(requested, SchemeRedditCom)

\* a URL that names old.reddit.com or does not name reddit.com is requested
\* as it is
FetchedUnchanged(u) ==
    (Contains(u, OldRedditCom) \/ ~Contains(u, RedditCom)) => requested = u

\* the record the parser returned carries the URL scrape_url was called with
RecordKeepsUrl == (Fetched /\ cli_data # PyNone) => cli_data.url = url

RewriteUnlessOldAnywhere ==
    /\ Fetched =>
           /\ (Contains(url, WwwRedditCom) \/ ~Contains(url, <<"o", "l", "d", ".">>)) =>
                  FetchedFromOld(url)
           /\ FetchedUnchanged(url)
           /\ RewrittenUrl(requested) = requested
    /\ RecordKeepsUrl

\* a thread record returned for a URL whose request went to another URL
RewrittenAndRouted ==
    /\ Fetched
    /\ requested # url
    /\ cli_data # PyNone /\ cli_data.record = "RedditThread"

====
